---------------------------- MODULE Spec2Model ----------------------------
(***************************************************************************)
(* A model of NanoSage's recursive search orchestrator: the meta-search    *)
(* engine manager, the reranker, the polite concurrent downloader          *)
(* (web_crawler.py) and the session that drives them (search_session.py).  *)
(*                                                                         *)
(* Every component is a small state machine with its own program counter.  *)
(* The component specifications (SpecEM, SpecRerank, SpecDL) start one      *)
(* component on inputs drawn from bounded sets; Spec runs a whole session   *)
(* that calls the same actions.                                            *)
(***************************************************************************)
EXTENDS Integers, Sequences, FiniteSets, TLC

(***************************************************************************)
(* Bounds of the model (not program constants).                            *)
(***************************************************************************)
\* Largest number of results one engine returns in SpecEM.
MaxChunk == 5
\* Largest max_results passed to EngineManager.search in SpecEM.
MaxMaxResults == 2
\* Longest input list of rerank in SpecRerank.
MaxRerankLen == 4
\* Largest per_domain_cap passed to rerank in SpecRerank.
MaxDomainCap == 3
\* Longest URL list passed to download_many in SpecDL.
MaxUrls == 2
\* Largest concurrency passed to download_many in SpecDL.
MaxConcurrency == 2
\* Longest list of sentence groups of a session's query.
MaxSubqueries == 2
\* Largest max_depth of a session.
MaxDepth == 2
\* Largest number of sub-queries a session is led to visit.
MaxNodes == 2
\* Largest web_search_limit of a session.
MaxSearchLimit == 2
\* Largest number of pages a session sets out to download: its sub-queries
\* times its depth times its web_search_limit.
MaxDownloads == 2
MaxDraws == 3
MaxSamplerCalls == 2

(***************************************************************************)
(* Generic helpers.                                                        *)
(***************************************************************************)
RECURSIVE Flatten(_)
\* Concatenation of a sequence of sequences.
Flatten(ss) == IF ss = <<>> THEN <<>> ELSE Head(ss) \o Flatten(Tail(ss))

\* The prefix of s of length at most n (Python's s[:n], n >= 0).
Take(s, n) == SubSeq(s, 1, IF n < Len(s) THEN n ELSE Len(s))

Range(s) == {s[i] : i \in 1..Len(s)}

(***************************************************************************)
(* Data model.  A URL is kept parsed: netloc is what urlparse(url).netloc  *)
(* returns, path tells URLs of one netloc apart.  NoHref is the empty      *)
(* string, whose netloc is empty.                                          *)
(***************************************************************************)
Url(host, p) == [netloc |-> host, path |-> p]
NoHref == Url("", 0)

\* A date hint as try_parse_date sees it: nothing parsable, a naive datetime
\* (days before now; negative in the future) or a timezone-aware datetime.
NoDate == [tz |-> "none", days |-> 0]
NaiveDate(d) == [tz |-> "naive", days |-> d]
AwareDate(d) == [tz |-> "aware", days |-> d]

\* class SearchResult: title, href, body, source, published.
SearchResult(t, h, b, s, p) ==
    [title |-> t, href |-> h, body |-> b, source |-> s, published |-> p]

(***************************************************************************)
(* Engines.  search_and_download builds the ordered engine list: Tavily    *)
(* when available, DuckDuckGo when available, SearxNG always, Wikipedia    *)
(* when asked for.                                                         *)
(***************************************************************************)
BuildEngines(tavily_ok, ddg_ok, include_wikipedia) ==
    (IF tavily_ok THEN <<"tavily">> ELSE <<>>)
    \o (IF ddg_ok THEN <<"ddg">> ELSE <<>>)
    \o <<"searxng">>
    \o (IF include_wikipedia THEN <<"wikipedia">> ELSE <<>>)

\* The k-th hit of an engine: hits alternate between two hosts, and all
\* engines find the same pages (tagged with their own name).
EngineHit(name, k) ==
    SearchResult("t", Url(IF k % 2 = 1 THEN "a.com" ELSE "b.edu", k), "", name, NoDate)

\* What one call of eng.search does: it raises, or returns n results.
EngineOutcomes(maxn) ==
    {[kind |-> "raise", n |-> 0]} \cup {[kind |-> "ok", n |-> n] : n \in 0..maxn}

\* A hit whose date hint carries a timezone ("2024-05-01T10:00:00Z").
DatedHit(name, k) == [EngineHit(name, k) EXCEPT !.published = AwareDate(1)]

\* The list eng.search returns when it does not raise: n hits, of kind "ok"
\* without date hints, of kind "dated" with timezone-aware ones.
EngineResults(name, out) ==
    [k \in 1..out.n |-> IF out.kind = "dated" THEN DatedHit(name, k) ELSE EngineHit(name, k)]

VARIABLES
    engines,      \* EngineManager.engines: the ordered engine names
    outcomes,     \* what each engine's search does when called (environment)
    max_results,  \* the max_results argument of EngineManager.search
    aggregate,    \* the running aggregate
    emIdx,        \* position of the for loop in self.engines
    emCalled,     \* the engines whose search was called, in call order
    emPc,         \* "idle" | "loop" | "done" | "raised"
    results,        \* rerank's argument: the raw result list
    per_domain_cap, \* rerank's argument
    rrOut,          \* what rerank returned
    rrPc,           \* "idle" | "call" | "done" | "raised"
    urls,            \* download_many's argument
    concurrency,     \* download_many's argument
    sem,             \* free permits of asyncio.Semaphore(concurrency)
    tasks,           \* the _task(u) coroutines of gather, one per URL
    robots_cache,    \* the module-level _robots_cache: origin -> parser or None
    robots_txt,      \* the robots.txt each origin serves (environment)
    robots_requests, \* how often /robots.txt of an origin was requested
    robots_writes,   \* how often _robots_cache[origin] was assigned
    robots_failed,   \* the origins of which a /robots.txt request failed or was not 200
    files,           \* the names of the files written to the output directory
    dlPages,         \* what download_many returned
    dlPc,            \* "idle" | "gather" | "done"
    config,        \* SearchSession.config and constructor arguments
    enhanced_query, \* SearchSession.enhanced_query, as its list of sentence groups
    relevance,     \* late_interaction_score of each sub-query (environment)
    sPc,           \* where run_session is (see RunSessionStart)
    sError,        \* the call whose exception ended run_session, or ""
    frames,        \* the active calls of perform_recursive_web_searches
    toc,           \* the TOCNode objects, by creation order
    web_results,   \* SearchSession.web_results
    toc_tree,      \* SearchSession.toc_tree: the root nodes
    selected_queries, \* monte_carlo_metrics['selected_queries']
    final_answer,  \* what run_session returned
    qsStatus,      \* status of the result QueryService recorded, or "PROCESSING"
    qsWebResults,  \* web_results of the result QueryService recorded
    rng,           \* the generator of the module random: its seed and the draws since
    stream,        \* what the generator yields after each seed and number of draws
    mc_calls,      \* the calls of perform_monte_carlo_subqueries so far
    model_type,    \* SearchSession.model_type, as load_retrieval_model returned it
    corpus_dir,    \* the files of corpus_dir that load_corpus_from_dir has yet to read
    kb_corpus,     \* KnowledgeBase.corpus
    enhanced_query_embedding, \* SearchSession.enhanced_query_embedding
    top_k,         \* the top_k argument of KnowledgeBase.search
    local_results, \* what KnowledgeBase.search returned
    kbPc,          \* "idle" | "loading" | "ready" | "searched"
    max_queries,   \* HistoryService.max_queries
    index,         \* the list stored in results/_history_index.json
    results_dir,   \* the query directories under results/ (query_id -> what it holds)
    exports_dir,   \* the names of the files under exports/
    last_call,     \* the latest call on HistoryService and what the index was before it
    ddg_max_results, \* the max_results argument of DuckDuckGoEngine.search
    ddg_attempt,   \* the attempt variable of its for loop
    ddg_results,   \* its results list
    ddg_trace,     \* its sleeps and DDGS.text calls so far, in order (ghost)
    ddgPc,         \* "idle" | "attempt" | "backoff" | "query" | "error_sleep" | "done"
    sx_call,       \* how many search_and_download calls the process has started
    sx_good_endpoint, \* _good_endpoint of the SearxNGEngine of the current call
    sx_endpoints,  \* SearxNGEngine.DEFAULT_ENDPOINTS, shuffled in place
    sx_idx,        \* position of _pick_endpoint's for loop in it
    sx_trace,      \* the probe and query requests sent so far, in order (ghost)
    sxPc,          \* "idle" | "manager" | "probe" | "fanout"
    active_queries,    \* QueryService.active_queries: query -> status, or None when absent
    completed_queries, \* QueryService.completed_queries: query -> status of the result, or None
    qPc,           \* where the _process_query task of each query stands
    active_connections,\* ConnectionManager.active_connections: query_id -> set of websockets
    connection_queries,\* ConnectionManager.connection_queries: websocket -> query_id
    ws_state,      \* each websocket: "new" | "open" | "closed" (environment)
    sender,        \* the locals of the running send_progress_update call
    sends,         \* how many send_progress_update calls were made
    sys_stdout,    \* sys.stdout: "console" or the PrintCapture of a query
    captures,      \* the PrintCapture of each query: original_stdout and log_buffer
    callback_log,  \* the log messages handed to the callback, in order
    lgPc,          \* each query's log streaming: "idle" | "running" | "ended"
    printed        \* how many lines were printed

emVars == <<engines, outcomes, max_results, aggregate, emIdx, emCalled, emPc>>
rrVars == <<results, per_domain_cap, rrOut, rrPc>>
dlVars == <<urls, concurrency, sem, tasks, robots_cache, robots_txt,
            robots_requests, robots_writes, robots_failed, files, dlPages, dlPc>>

sVars == <<config, enhanced_query, relevance, sPc, sError, frames, toc, web_results, toc_tree,
           selected_queries, final_answer, qsStatus, qsWebResults>>

\* The inputs of a session, which it never assigns.
sessionEnv == <<config, enhanced_query, relevance>>

\* The process-wide random generator and the record of the sampler's calls.
rngVars == <<rng, stream, mc_calls>>

\* The knowledge base of a session and what it is built from.
kbVars == <<model_type, corpus_dir, kb_corpus, enhanced_query_embedding, top_k, local_results,
            kbPc>>

\* HistoryService and the two directories it manages.
histVars == <<max_queries, index, results_dir, exports_dir, last_call>>

\* DuckDuckGoEngine.search.
ddgVars == <<ddg_max_results, ddg_attempt, ddg_results, ddg_trace, ddgPc>>

\* The components of the later sections.
\* SearxNGEngine within search_and_download.
sxVars == <<sx_call, sx_good_endpoint, sx_endpoints, sx_idx, sx_trace, sxPc>>

\* QueryService over the queries submitted to it.
qsVars == <<active_queries, completed_queries, qPc>>

\* ConnectionManager and one caller of send_progress_update.
wsVars == <<active_connections, connection_queries, ws_state, sender, sends>>

\* Log streaming: sys.stdout and the PrintCapture objects.
lgVars == <<sys_stdout, captures, callback_log, lgPc, printed>>

auxVars == <<ddgVars, sxVars, qsVars, wsVars, lgVars>>

vars == <<emVars, rrVars, dlVars, sVars, rngVars, kbVars, histVars, auxVars>>

\* Everything but the engine manager's state.
nonEmVars == <<rrVars, dlVars, sVars, rngVars, kbVars, histVars, auxVars>>
\* Everything but the reranker's state.
nonRrVars == <<emVars, dlVars, sVars, rngVars, kbVars, histVars, auxVars>>
\* Everything but the downloader's state.
nonDlVars == <<emVars, rrVars, sVars, rngVars, kbVars, histVars, auxVars>>

\* A component that is not running.
EMIdle ==
    /\ engines = <<>>
    /\ outcomes = <<>>
    /\ max_results = 0
    /\ aggregate = <<>>
    /\ emIdx = 0
    /\ emCalled = <<>>
    /\ emPc = "idle"

RRIdle ==
    /\ results = <<>>
    /\ per_domain_cap = 0
    /\ rrOut = <<>>
    /\ rrPc = "idle"

\* The hosts of the model's web.
Origins == {"a.com", "b.edu"}

\* No download_many running, in a process that has fetched no robots.txt.
DLQuiet ==
    /\ urls = <<>>
    /\ concurrency = 0
    /\ sem = 0
    /\ tasks = <<>>
    /\ robots_cache = <<>>
    /\ robots_requests = [o \in Origins |-> 0]
    /\ robots_writes = [o \in Origins |-> 0]
    /\ robots_failed = {}
    /\ files = {}
    /\ dlPages = <<>>
    /\ dlPc = "idle"

DLIdle ==
    /\ DLQuiet
    /\ robots_txt = [o \in Origins |-> [all |-> FALSE, paths |-> {}]]

\* The random generator is not looked at: the draws of the component at hand
\* are choices of the model.
RngIdle ==
    /\ rng = [seed |-> 0, drawn |-> 0]
    /\ stream = <<>>
    /\ mc_calls = <<>>

\* No knowledge base has been built.
KBIdle ==
    /\ model_type = ""
    /\ corpus_dir = <<>>
    /\ kb_corpus = <<>>
    /\ enhanced_query_embedding = <<>>
    /\ top_k = 0
    /\ local_results = <<>>
    /\ kbPc = "idle"

\* HistoryService is not looked at.
HistIdle ==
    /\ max_queries = 0
    /\ index = <<>>
    /\ results_dir = <<>>
    /\ exports_dir = {}
    /\ last_call = <<>>

\* DuckDuckGoEngine.search is not running.
DDGIdle ==
    /\ ddg_max_results = 0
    /\ ddg_attempt = 0
    /\ ddg_results = <<>>
    /\ ddg_trace = <<>>
    /\ ddgPc = "idle"

\* No search_and_download has been called.
SxIdle ==
    /\ sx_call = 0
    /\ sx_good_endpoint = 0
    /\ sx_endpoints = <<>>
    /\ sx_idx = 0
    /\ sx_trace = <<>>
    /\ sxPc = "idle"

\* No QueryService in the process.
QSIdle ==
    /\ active_queries = <<>>
    /\ completed_queries = <<>>
    /\ qPc = <<>>

\* No ConnectionManager in the process.
WSIdle ==
    /\ active_connections = <<>>
    /\ connection_queries = <<>>
    /\ ws_state = <<>>
    /\ sender = <<>>
    /\ sends = 0

\* No log streaming was set up.
LogIdle ==
    /\ sys_stdout = "console"
    /\ captures = <<>>
    /\ callback_log = <<>>
    /\ lgPc = <<>>
    /\ printed = 0

AuxIdle == DDGIdle /\ SxIdle /\ QSIdle /\ WSIdle /\ LogIdle

\* No session in the process.
SIdle ==
    /\ config = <<>>
    /\ enhanced_query = <<>>
    /\ relevance = <<>>
    /\ sPc = "idle"
    /\ sError = ""
    /\ frames = <<>>
    /\ toc = <<>>
    /\ web_results = <<>>
    /\ toc_tree = <<>>
    /\ selected_queries = <<>>
    /\ final_answer = ""
    /\ qsStatus = "PROCESSING"
    /\ qsWebResults = <<>>

(***************************************************************************)
(* EngineManager.search (web_crawler.py 651-664).                          *)
(***************************************************************************)
\* try: chunk = await eng.search(...) except Exception: chunk = []
CaughtChunk(name, out) == IF out.kind = "raise" THEN <<>> ELSE EngineResults(name, out)

\* Mutant of EngineErrorCaught: the loop has no try/except.
EngineErrorNotCaught == FALSE

\* Does the except clause of the loop catch an engine's exception?
EngineErrorCaught == TRUE

\* Mutant of ExtendAggregate: the chunk is put in front of the aggregate.
ExtendAggregateInFront(agg, chunk) == IF chunk # <<>> THEN chunk \o agg ELSE agg

\* if chunk: aggregate.extend(chunk)
ExtendAggregate(agg, chunk) == IF chunk # <<>> THEN agg \o chunk ELSE agg

\* Mutant of EarlyStop: the loop stops at max_results instead of twice that.
EarlyStopAtMaxResults(agg, maxr) == Len(agg) >= maxr

\* if len(aggregate) >= max_results * 2: break
EarlyStop(agg, maxr) == Len(agg) >= maxr * 2

\* One iteration of "for eng in self.engines".
EngineCall ==
    /\ emPc = "loop"
    /\ emIdx <= Len(engines)
    /\ LET name == engines[emIdx]
           out == outcomes[emIdx]
       IN  /\ emCalled' = Append(emCalled, emIdx)
           /\ IF out.kind = "raise" /\ ~EngineErrorCaught
              THEN /\ emPc' = "raised"
                   /\ UNCHANGED <<aggregate, emIdx>>
              ELSE LET agg == ExtendAggregate(aggregate, CaughtChunk(name, out))
                   IN  /\ aggregate' = agg
                       /\ IF EarlyStop(agg, max_results)
                          THEN emPc' = "done" /\ emIdx' = emIdx
                          ELSE emPc' = "loop" /\ emIdx' = emIdx + 1
    /\ UNCHANGED <<engines, outcomes, max_results>>
    /\ UNCHANGED nonEmVars

\* The loop is exhausted: return aggregate.
EngineReturn ==
    /\ emPc = "loop"
    /\ emIdx > Len(engines)
    /\ emPc' = "done"
    /\ UNCHANGED <<engines, outcomes, max_results, aggregate, emIdx, emCalled>>
    /\ UNCHANGED nonEmVars

\* A call of EngineManager.search on an engine list with given behaviour.
EMStart(engs, outs, maxr) ==
    /\ engines = engs
    /\ outcomes = outs
    /\ max_results = maxr
    /\ aggregate = <<>>
    /\ emIdx = 1
    /\ emCalled = <<>>
    /\ emPc = "loop"

EngineLists == {BuildEngines(t, d, w) : t \in BOOLEAN, d \in BOOLEAN, w \in BOOLEAN}

InitEM ==
    \E engs \in EngineLists :
      \E outs \in [1..Len(engs) -> EngineOutcomes(MaxChunk)] :
        \E maxr \in 1..MaxMaxResults :
          /\ EMStart(engs, outs, maxr)
          /\ RRIdle
          /\ DLIdle
          /\ SIdle
          /\ RngIdle
          /\ KBIdle
          /\ HistIdle
          /\ AuxIdle

NextEM == EngineCall \/ EngineReturn

SpecEM == InitEM /\ [][NextEM]_vars

(***************************************************************************)
(* Claims about EngineManager.search, checked under SpecEM.                *)
(***************************************************************************)
\* What engine i hands back, read off the environment alone.
Returned(i) == IF outcomes[i].kind # "raise" THEN EngineResults(engines[i], outcomes[i]) ELSE <<>>

\* The number of results the engines before position i returned.
ReturnedBefore(i) == Len(Flatten([j \in 1..(i - 1) |-> Returned(j)]))

WasCalled(i) == i \in Range(emCalled)

FromEngine(agg, name) == LET Test(r) == r.source = name IN SelectSeq(agg, Test)

\* C2: EngineManager.search never raises because of an engine: an engine
\* whose search raises contributes nothing to the aggregate, the engine after
\* it is still tried, and when every engine raises or returns nothing the
\* call returns the empty list (after trying them all).
C2_EngineFailuresNeverAbort ==
    /\ emPc # "raised"
    /\ emPc = "done" =>
         /\ \A i \in 1..Len(engines) :
               (WasCalled(i) /\ outcomes[i].kind = "raise") =>
                  /\ FromEngine(aggregate, engines[i]) = <<>>
                  /\ i < Len(engines) => WasCalled(i + 1)
         /\ (\A i \in 1..Len(engines) : outcomes[i].kind = "raise" \/ outcomes[i].n = 0) =>
               /\ aggregate = <<>>
               /\ \A i \in 1..Len(engines) : WasCalled(i)

\* C2 witness: the call has returned, an engine raised, and a later engine's
\* results are in the aggregate.
C2_Witness ==
    /\ emPc = "done"
    /\ \E i, j \in 1..Len(engines) :
         /\ i < j
         /\ outcomes[i].kind = "raise"
         /\ WasCalled(j)
         /\ FromEngine(aggregate, engines[j]) # <<>>

\* C3: an engine is called exactly when the aggregate built from the engines
\* before it is smaller than 2*max_results: no engine is called once the
\* aggregate holds 2*max_results results, and none is skipped before that.
C3_EarlyTermination ==
    /\ \A i \in 1..Len(engines) : WasCalled(i) => ReturnedBefore(i) < 2 * max_results
    /\ emPc = "done" =>
         \A i \in 1..Len(engines) : ReturnedBefore(i) < 2 * max_results => WasCalled(i)

\* C3 witness: the call has returned with the last engine skipped, while the
\* engine before it was called.
C3_Witness ==
    /\ emPc = "done"
    /\ Len(engines) >= 3
    /\ ~WasCalled(Len(engines))
    /\ WasCalled(Len(engines) - 1)
    /\ Len(aggregate) >= 2 * max_results

\* C4: the returned aggregate is the concatenation of the engines' chunks in
\* engine-list order: results of an earlier engine precede those of a later
\* one, each called engine's results appear whole and in their own order, and
\* when only one engine returns anything (the engines before it rate-limited
\* or failing) the aggregate is exactly that engine's results, all carrying
\* its source tag.
EngineRank(name) == CHOOSE i \in 1..Len(engines) : engines[i] = name

C4_ConcatenatedInEngineOrder ==
    emPc = "done" =>
      /\ \A p, q \in 1..Len(aggregate) :
            p < q => EngineRank(aggregate[p].source) <= EngineRank(aggregate[q].source)
      /\ \A i \in 1..Len(engines) :
            WasCalled(i) => FromEngine(aggregate, engines[i]) = Returned(i)
      /\ \A j \in 1..Len(engines) :
            (\A i \in 1..Len(engines) : i # j => Returned(i) = <<>>) =>
               /\ aggregate = Returned(j)
               /\ \A p \in 1..Len(aggregate) : aggregate[p].source = engines[j]

\* C4 witness: DuckDuckGo returned nothing, SearxNG returned 5 results, and
\* the call has returned those 5.
C4_Witness ==
    /\ emPc = "done"
    /\ engines = <<"ddg", "searxng">>
    /\ Returned(1) = <<>>
    /\ outcomes[2] = [kind |-> "ok", n |-> 5]
    /\ Len(aggregate) = 5
    /\ \A p \in 1..5 : aggregate[p].source = "searxng"

(***************************************************************************)
(* The reranker (web_crawler.py 423-485).                                  *)
(***************************************************************************)
\* kw in title / kw in body, both lowercased: the texts holding the keyword.
KeywordIn(text) == text \in {"kw", "kw dated"}

\* try_parse_date on a title or body: the texts a date can be read from.
TextDate(text) == IF text \in {"dated", "kw dated"} THEN NaiveDate(10) ELSE NoDate

\* any(host.endswith(d) for d in GOOD_DOMAINS)
IsGoodDomain(href) == href.netloc \in {"b.edu", "c.gov"}

\* any(h in href for h in BAD_HINTS)
HasBadHint(href) == href.netloc \in {"quora.com"}

\* The date score_result works with: published first, else body, else title.
ParsedDate(item) ==
    IF item.published.tz # "none" THEN item.published
    ELSE IF TextDate(item.body).tz # "none" THEN TextDate(item.body)
    ELSE TextDate(item.title)

\* datetime.utcnow() - dt raises TypeError when dt carries a timezone.
ScoreRaises(item) == ParsedDate(item).tz = "aware"

Recency(dt) ==
    IF dt.tz = "none" THEN 0
    ELSE LET days == IF dt.days < 1 THEN 1 ELSE dt.days
         IN  IF days < 30 THEN 2 ELSE IF days < 180 THEN 1 ELSE 0

\* score_result(item, keyword), in whole points.
score_result(item) ==
    (IF KeywordIn(item.title) THEN 2 ELSE 0)
    + (IF KeywordIn(item.body) THEN 1 ELSE 0)
    + (IF IsGoodDomain(item.href) THEN 2 ELSE 0)
    + Recency(ParsedDate(item))
    + (IF HasBadHint(item.href) THEN -2 ELSE 0)

RECURSIVE DedupeFrom(_, _)
DedupeFrom(rs, seen) ==
    IF rs = <<>> THEN <<>>
    ELSE LET r == Head(rs)
         IN  IF r.href # NoHref /\ r.href \notin seen
             THEN <<r>> \o DedupeFrom(Tail(rs), seen \cup {r.href})
             ELSE DedupeFrom(Tail(rs), seen)

RECURSIVE DedupeKeepLast(_)
\* Mutant of Dedupe: a later result with the same href replaces the earlier.
DedupeKeepLast(rs) ==
    IF rs = <<>> THEN <<>>
    ELSE LET r == Head(rs)
             rest == DedupeKeepLast(Tail(rs))
         IN  IF r.href # NoHref /\ \A i \in 1..Len(rest) : rest[i].href # r.href
             THEN <<r>> \o rest
             ELSE rest

\* dedupe by href preserving first occurrence (results without href dropped)
Dedupe(rs) == DedupeFrom(rs, {})

\* Mutant of InsertByScore: an ascending sort that is reversed afterwards
\* puts r in front of the elements of equal score.
InsertBeforeEqual(sorted, r) ==
    LET n == Cardinality({i \in 1..Len(sorted) : score_result(sorted[i]) > score_result(r)})
    IN  SubSeq(sorted, 1, n) \o <<r>> \o SubSeq(sorted, n + 1, Len(sorted))

\* Where a stable descending sort puts r in an already sorted list: behind
\* every element whose score is at least r's.
InsertByScore(sorted, r) ==
    LET n == Cardinality({i \in 1..Len(sorted) : score_result(sorted[i]) >= score_result(r)})
    IN  SubSeq(sorted, 1, n) \o <<r>> \o SubSeq(sorted, n + 1, Len(sorted))

RECURSIVE SortInto(_, _)
SortInto(sorted, rs) ==
    IF rs = <<>> THEN sorted ELSE SortInto(InsertByScore(sorted, Head(rs)), Tail(rs))

\* deduped.sort(key=score_result, reverse=True): descending and stable.
SortByScore(rs) == SortInto(<<>>, rs)

\* Mutant of Admits: a domain is admitted while its count is <= the cap.
AdmitsOneMore(count, cap) == count <= cap

\* if counts[dom] < per_domain_cap
Admits(count, cap) == count < cap

RECURSIVE DiversityFrom(_, _, _)
DiversityFrom(rs, out, cap) ==
    IF rs = <<>> THEN out
    ELSE LET r == Head(rs)
             count == Cardinality({i \in 1..Len(out) : out[i].href.netloc = r.href.netloc})
         IN  DiversityFrom(Tail(rs), IF Admits(count, cap) THEN Append(out, r) ELSE out, cap)

rerank(rs, cap) == DiversityFrom(SortByScore(Dedupe(rs)), <<>>, cap)

\* The sort evaluates score_result on every deduped result.
RerankRaises(rs) == \E i \in 1..Len(Dedupe(rs)) : ScoreRaises(Dedupe(rs)[i])

RerankCall ==
    /\ rrPc = "call"
    /\ IF RerankRaises(results)
       THEN rrPc' = "raised" /\ rrOut' = <<>>
       ELSE rrPc' = "done" /\ rrOut' = rerank(results, per_domain_cap)
    /\ UNCHANGED <<results, per_domain_cap>>
    /\ UNCHANGED nonRrVars

\* The results SpecRerank builds its input lists from: two results sharing
\* an href, five pages of one host, a good domain, a penalised one, a result
\* without href and one whose date carries a timezone.
RerankItems ==
    { SearchResult("kw", Url("a.com", 1), "", "ddg", NoDate),
      SearchResult("t", Url("a.com", 1), "kw", "searxng", NaiveDate(100)),
      SearchResult("t", Url("a.com", 2), "", "ddg", NoDate),
      SearchResult("kw", Url("a.com", 3), "dated", "ddg", NoDate),
      SearchResult("t", Url("a.com", 4), "", "searxng", NoDate),
      SearchResult("t", Url("b.edu", 1), "", "searxng", NaiveDate(400)),
      SearchResult("kw", Url("quora.com", 1), "", "ddg", NoDate),
      SearchResult("kw", NoHref, "", "ddg", NoDate),
      SearchResult("t", Url("a.com", 2), "", "searxng", AwareDate(1)) }

RECURSIVE SeqsUpTo(_, _)
\* The sequences over S of length at most n.
SeqsUpTo(S, n) ==
    IF n = 0 THEN {<<>>}
    ELSE LET shorter == SeqsUpTo(S, n - 1)
         IN  shorter \cup {Append(q, x) : q \in shorter, x \in S}

\* Ten results with distinct URLs, all of one host.
TenSameHost == [k \in 1..10 |-> SearchResult("t", Url("example.com", k), "", "ddg", NoDate)]

InitRerank ==
    /\ results \in SeqsUpTo(RerankItems, MaxRerankLen) \cup {TenSameHost}
    /\ per_domain_cap \in 1..MaxDomainCap
    /\ rrOut = <<>>
    /\ rrPc = "call"
    /\ EMIdle
    /\ DLIdle
    /\ SIdle
    /\ RngIdle
    /\ KBIdle
    /\ HistIdle
    /\ AuxIdle

NextRerank == RerankCall

SpecRerank == InitRerank /\ [][NextRerank]_vars

(***************************************************************************)
(* Claims about rerank, checked under SpecRerank.                          *)
(***************************************************************************)
\* The first position of the input list holding href h.
FirstWithHref(h) == CHOOSE i \in 1..Len(results) :
    results[i].href = h /\ \A j \in 1..(i - 1) : results[j].href # h

\* C5: the output of rerank holds no two results with the same href, and the
\* result kept for an href is the first one of the input list with that href.
C5_DedupeKeepsFirst ==
    rrPc = "done" =>
      /\ \A p, q \in 1..Len(rrOut) : p # q => rrOut[p].href # rrOut[q].href
      /\ \A p \in 1..Len(rrOut) : rrOut[p] = results[FirstWithHref(rrOut[p].href)]

\* C5 witness: rerank returned a result whose href a later, different result
\* of the input shares.
C5_Witness ==
    /\ rrPc = "done"
    /\ \E p \in 1..Len(rrOut) : \E j \in 1..Len(results) :
         /\ results[j].href = rrOut[p].href
         /\ results[j] # rrOut[p]

C28_SortedStable ==
    rrPc = "done" =>
      \A p, q \in 1..Len(rrOut) : p < q =>
         /\ score_result(rrOut[p]) >= score_result(rrOut[q])
         /\ score_result(rrOut[p]) = score_result(rrOut[q])
              => FirstWithHref(rrOut[p].href) < FirstWithHref(rrOut[q].href)

\* C28 witness: rerank returned two results of equal score behind a result
\* that stood after both of them in the input list.
C28_Witness ==
    /\ rrPc = "done"
    /\ \E p, q, r \in 1..Len(rrOut) :
         /\ p < q /\ q < r
         /\ score_result(rrOut[p]) > score_result(rrOut[q])
         /\ score_result(rrOut[q]) = score_result(rrOut[r])
         /\ FirstWithHref(rrOut[r].href) < FirstWithHref(rrOut[p].href)

(***************************************************************************)
(* The downloader (web_crawler.py 490-577).  Each action runs one task     *)
(* from the point where the event loop resumes it to its next await.       *)
(***************************************************************************)
\* fetch_one's tries argument (its default).
Tries == 3

\* A robots.txt: "Disallow: /" (all), or the paths it disallows.
RobotsFiles ==
    { [all |-> FALSE, paths |-> {}],
      [all |-> TRUE, paths |-> {}],
      [all |-> FALSE, paths |-> {2}] }

\* The values of rp in robots_allowed: not yet assigned, None, or a parser
\* that has read the origin's file.
UnknownRp == [kind |-> "unknown", all |-> FALSE, paths |-> {}]
NoneRp == [kind |-> "none", all |-> FALSE, paths |-> {}]
ParsedRp(file) == [kind |-> "parsed", all |-> file.all, paths |-> file.paths]

\* return True if rp is None else rp.can_fetch(user_agent, url)
Allowed(rp, url) == IF rp.kind = "none" THEN TRUE ELSE ~rp.all /\ url.path \notin rp.paths

\* base = f"{parsed.scheme}://{parsed.netloc}"
Base(url) == url.netloc

\* url.lower().endswith(".pdf"): the pages numbered 4 are PDF files.
EndsWithPdf(url) == url.path = 4

\* ext = ".pdf" if ("application/pdf" in ctype or url ends with .pdf) else ".html"
Ext(url, ctype) == IF ctype = "application/pdf" \/ EndsWithPdf(url) THEN ".pdf" ELSE ".html"

\* url_hash(url): the first 12 hex digits of SHA1(url), a function of the URL.
url_hash(url) == <<"sha1", url.netloc, url.path>>

\* fname = f"{url_hash(url)}{ext}"
FileName(url, ctype) == [hash |-> url_hash(url), ext |-> Ext(url, ctype)]

\* fetch_one's max_bytes argument (its default), in units of 4,000,000 bytes.
max_bytes == 2

\* What fetch_one returns: None, or the page's dict.
None ==
    [ok |-> FALSE, url |-> NoHref, file_path |-> FileName(NoHref, ""), content_type |-> "",
     size |-> 0]
Page(url, ctype, raw) ==
    [ok |-> TRUE, url |-> url, file_path |-> FileName(url, ctype), content_type |-> ctype,
     size |-> raw]

\* The HEAD pre-flight of an attempt: not answered yet, ended by an exception
\* or a timeout, or answered with a Content-Length (0: missing or zero).
NoHead == [kind |-> "none", clen |-> 0]
HeadFailed == [kind |-> "failed", clen |-> 0]
HeadAnswered(clen) == [kind |-> "answered", clen |-> clen]

\* The answers the model's web gives to a HEAD: a failure, no length, a
\* length of exactly max_bytes, a length above it.
HeadAnswers == {HeadFailed} \cup {HeadAnswered(c) : c \in {0, max_bytes, max_bytes + 1}}

\* len(raw) of the bodies the model's web gives to a GET: exactly max_bytes,
\* or more.
BodySizes == {max_bytes, max_bytes + 1}

ContentTypes == {"text/html", "application/pdf"}

\* A task of gather before the event loop has run it.  The field served
\* records how robots_allowed got its rp: by its own request, from the cache,
\* or from the cache after a request of that origin had failed; head is the
\* outcome of the HEAD whose GET is under way, or of the HEAD that made
\* fetch_one skip the URL, and raw the length of the body the current
\* attempt's GET has read (0: none).
NewTask ==
    [pc |-> "queued", rp |-> UnknownRp, served |-> "", attempt |-> 0, backoff |-> 1,
     heads |-> 0, gets |-> 0, head |-> NoHead, raw |-> 0, wrote |-> FALSE, result |-> None]

\* The task is inside "async with sem", that is, fetch_one is in progress.
InFetch(t) == t.pc \in {"robots_wait", "head", "get", "sleep"}

\* Mutant of SemAcquire: entering the semaphore takes no permit.
SemAcquireNoPermit(n) == n

\* async with sem: (entry)
SemAcquire(n) == n - 1

\* async with sem: (exit)
SemRelease(n) == n + 1

\* fetch_one returns res: the task ends and leaves the semaphore.
Finish(i, t, res, n) ==
    /\ tasks' = [tasks EXCEPT ![i] = [t EXCEPT !.pc = "done", !.result = res]]
    /\ sem' = SemRelease(n)

\* The top of "for attempt in range(tries)": the HEAD request goes out.
StartAttempt(i, t, n) ==
    /\ tasks' = [tasks EXCEPT ![i] =
                    [t EXCEPT !.pc = "head", !.heads = @ + 1, !.head = NoHead, !.raw = 0]]
    /\ sem' = n

\* Mutant of RobotsBlocks: the verdict of robots_allowed is ignored.
RobotsIgnored(rp, url) == FALSE

\* if not await robots_allowed(session, url): return None
RobotsBlocks(rp, url) == ~Allowed(rp, url)

\* fetch_one from the verdict of robots_allowed on.
AfterRobots(i, t, rp, n) ==
    IF RobotsBlocks(rp, urls[i])
    THEN Finish(i, [t EXCEPT !.rp = rp], None, n)
    ELSE StartAttempt(i, [t EXCEPT !.rp = rp], n)

\* Tasks enter the semaphore in the order gather created them.
TaskStart(i) ==
    /\ dlPc = "gather"
    /\ tasks[i].pc = "queued"
    /\ sem > 0
    /\ \A j \in 1..(i - 1) : tasks[j].pc # "queued"
    /\ LET base == Base(urls[i])
           n == SemAcquire(sem)
       IN  IF base \in DOMAIN robots_cache
           THEN /\ AfterRobots(i, [tasks[i] EXCEPT !.served =
                                       IF base \in robots_failed
                                       THEN "cache after failure" ELSE "cache"],
                                robots_cache[base], n)
                /\ UNCHANGED robots_requests
           ELSE /\ tasks' = [tasks EXCEPT ![i] =
                               [@ EXCEPT !.pc = "robots_wait", !.served = "request"]]
                /\ sem' = n
                /\ robots_requests' = [robots_requests EXCEPT ![base] = @ + 1]
    /\ UNCHANGED <<urls, concurrency, robots_cache, robots_txt, robots_writes, robots_failed, files,
                   dlPages, dlPc>>
    /\ UNCHANGED nonDlVars

\* The answer to GET /robots.txt: 200 with the file, another status, or an
\* exception (timeout, connection error, unreadable body).
RobotsResponse(i) ==
    /\ dlPc = "gather"
    /\ tasks[i].pc = "robots_wait"
    /\ \E answer \in {"200", "other status", "exception"} :
         LET base == Base(urls[i])
             rp == IF answer = "200" THEN ParsedRp(robots_txt[base]) ELSE NoneRp
         IN  /\ robots_cache' = [o \in DOMAIN robots_cache \cup {base} |->
                                    IF o = base THEN rp ELSE robots_cache[o]]
             /\ robots_writes' = [robots_writes EXCEPT ![base] = @ + 1]
             /\ robots_failed' = IF answer = "200" THEN robots_failed
                                 ELSE robots_failed \cup {base}
             /\ AfterRobots(i, tasks[i], rp, sem)
    /\ UNCHANGED <<urls, concurrency, robots_txt, robots_requests, files, dlPages, dlPc>>
    /\ UNCHANGED nonDlVars

\* Mutant of HeadSkips: a HEAD that failed makes fetch_one give the URL up.
HeadSkipsOnFailure(h) == h.kind = "failed" \/ h.clen > max_bytes

\* if clen and clen > max_bytes: return None -- inside the try whose
\* "except Exception: pass" swallows a failed HEAD.
HeadSkips(h) == h.kind = "answered" /\ h.clen # 0 /\ h.clen > max_bytes

\* The answer to the HEAD pre-flight; unless it makes fetch_one skip the URL,
\* the GET of the attempt goes out.
HeadResponse(i) ==
    /\ dlPc = "gather"
    /\ tasks[i].pc = "head"
    /\ \E h \in HeadAnswers :
         IF HeadSkips(h)
         THEN Finish(i, [tasks[i] EXCEPT !.head = h], None, sem)
         ELSE /\ tasks' = [tasks EXCEPT ![i] =
                             [@ EXCEPT !.pc = "get", !.head = h, !.gets = @ + 1]]
              /\ sem' = sem
    /\ UNCHANGED <<urls, concurrency, robots_cache, robots_txt, robots_requests,
                   robots_writes, robots_failed, files, dlPages, dlPc>>
    /\ UNCHANGED nonDlVars

\* Mutant of TooLong: the length of the body is not looked at.
TooLongNever(raw) == FALSE

\* if len(raw) > max_bytes: return None
TooLong(raw) == raw > max_bytes

\* The answer to the GET: an error (status >= 400, timeout, ...) caught by
\* the except of the attempt, or a body that has been read.
GetResponse(i) ==
    /\ dlPc = "gather"
    /\ tasks[i].pc = "get"
    /\ \/ /\ tasks' = [tasks EXCEPT ![i] = [@ EXCEPT !.pc = "sleep", !.head = NoHead]]
          /\ UNCHANGED <<sem, files>>
       \/ \E raw \in BodySizes : \E ctype \in ContentTypes :
            IF TooLong(raw)
            THEN /\ Finish(i, [tasks[i] EXCEPT !.head = NoHead, !.raw = raw], None, sem)
                 /\ UNCHANGED files
            ELSE /\ Finish(i, [tasks[i] EXCEPT !.head = NoHead, !.raw = raw, !.wrote = TRUE],
                           Page(urls[i], ctype, raw), sem)
                 /\ files' = files \cup {FileName(urls[i], ctype)}
    /\ UNCHANGED <<urls, concurrency, robots_cache, robots_txt, robots_requests,
                   robots_writes, robots_failed, dlPages, dlPc>>
    /\ UNCHANGED nonDlVars

\* Mutant of NextBackoff: the delay stays what it was.
NextBackoffFlat(backoff) == backoff

\* backoff *= 2
NextBackoff(backoff) == 2 * backoff

\* await asyncio.sleep(backoff + jitter) is over: backoff *= 2, next attempt.
SleepDone(i) ==
    /\ dlPc = "gather"
    /\ tasks[i].pc = "sleep"
    /\ LET t == [tasks[i] EXCEPT !.attempt = @ + 1, !.backoff = NextBackoff(@)]
       IN  IF t.attempt < Tries
           THEN StartAttempt(i, t, sem)
           ELSE Finish(i, t, None, sem)
    /\ UNCHANGED <<urls, concurrency, robots_cache, robots_txt, robots_requests,
                   robots_writes, robots_failed, files, dlPages, dlPc>>
    /\ UNCHANGED nonDlVars

\* gather is complete: return [r for r in results if r].
DownloadReturn ==
    /\ dlPc = "gather"
    /\ \A i \in 1..Len(tasks) : tasks[i].pc = "done"
    /\ dlPages' = LET Ok(r) == r.ok IN SelectSeq([i \in 1..Len(tasks) |-> tasks[i].result], Ok)
    /\ dlPc' = "done"
    /\ UNCHANGED <<urls, concurrency, sem, tasks, robots_cache, robots_txt,
                   robots_requests, robots_writes, robots_failed, files>>
    /\ UNCHANGED nonDlVars

\* A call download_many(us, out_dir, c): the semaphore and one task per URL.
DLStart(us, c) ==
    /\ urls = us
    /\ concurrency = c
    /\ sem = c
    /\ tasks = [i \in 1..Len(us) |-> NewTask]
    /\ dlPages = <<>>
    /\ dlPc = "gather"

\* The pages of the model's web that download_many is given in SpecDL.
DlUrls == {Url("a.com", 1), Url("a.com", 2), Url("b.edu", 1)}

\* The lists without repetition among those of SeqsUpTo.
DistinctSeqsUpTo(S, n) ==
    {q \in SeqsUpTo(S, n) : \A i, j \in 1..Len(q) : i # j => q[i] # q[j]}

\* What an earlier call left in _robots_cache for a.com: nothing (no earlier
\* call), the parser of its file, or None after a failed request.
EarlierCalls == {"none", "parsed a.com", "failed a.com"}

\* download_many is called in a process whose robots cache is empty, or
\* holds a.com's entry from an earlier call.
InitDL ==
    /\ \E us \in DistinctSeqsUpTo(DlUrls, MaxUrls) : \E c \in 1..MaxConcurrency : DLStart(us, c)
    /\ robots_txt \in [Origins -> RobotsFiles]
    /\ \E earlier \in EarlierCalls :
         /\ robots_cache =
               CASE earlier = "none" -> <<>>
                 [] earlier = "parsed a.com" -> [o \in {"a.com"} |-> ParsedRp(robots_txt[o])]
                 [] earlier = "failed a.com" -> [o \in {"a.com"} |-> NoneRp]
         /\ robots_requests = [o \in Origins |-> IF earlier # "none" /\ o = "a.com" THEN 1 ELSE 0]
         /\ robots_writes = [o \in Origins |-> IF earlier # "none" /\ o = "a.com" THEN 1 ELSE 0]
         /\ robots_failed = IF earlier = "failed a.com" THEN {"a.com"} ELSE {}
    /\ files = {}
    /\ EMIdle
    /\ RRIdle
    /\ SIdle
    /\ RngIdle
    /\ KBIdle
    /\ HistIdle
    /\ AuxIdle

NextDL ==
    \/ \E i \in 1..Len(tasks) : TaskStart(i)
    \/ \E i \in 1..Len(tasks) : RobotsResponse(i)
    \/ \E i \in 1..Len(tasks) : HeadResponse(i)
    \/ \E i \in 1..Len(tasks) : GetResponse(i)
    \/ \E i \in 1..Len(tasks) : SleepDone(i)
    \/ DownloadReturn

SpecDL == InitDL /\ [][NextDL]_vars

(***************************************************************************)
(* download_many called again and again in one process, as a session does  *)
(* for each of its sub-queries: _robots_cache and the output directory     *)
(* outlive the calls.                                                      *)
(***************************************************************************)
\* The next call of download_many, with the same arguments.
DownloadAgain ==
    /\ dlPc = "done"
    /\ sem' = concurrency
    /\ tasks' = [i \in 1..Len(urls) |-> NewTask]
    /\ dlPages' = <<>>
    /\ dlPc' = "gather"
    /\ UNCHANGED <<urls, concurrency, robots_cache, robots_txt, robots_requests,
                   robots_writes, robots_failed, files>>
    /\ UNCHANGED nonDlVars

\* The URLs of the repeated calls are of one host.
RefetchUrls == {Url("a.com", 1), Url("a.com", 2)}

\* The first call, in a process that has fetched no robots.txt.
InitRefetch ==
    /\ \E us \in DistinctSeqsUpTo(RefetchUrls, MaxUrls) : \E c \in 1..MaxConcurrency : DLStart(us, c)
    /\ robots_txt \in [Origins -> RobotsFiles]
    /\ robots_txt["b.edu"] = [all |-> FALSE, paths |-> {}]
    /\ robots_cache = <<>>
    /\ robots_requests = [o \in Origins |-> 0]
    /\ robots_writes = [o \in Origins |-> 0]
    /\ robots_failed = {}
    /\ files = {}
    /\ EMIdle
    /\ RRIdle
    /\ SIdle
    /\ RngIdle
    /\ KBIdle
    /\ HistIdle
    /\ AuxIdle

NextRefetch ==
    \/ NextDL
    \/ DownloadAgain

SpecRefetch == InitRefetch /\ [][NextRefetch]_vars

(***************************************************************************)
(* Claims about repeated downloads, checked under SpecRefetch.             *)
(***************************************************************************)
\* robots_allowed has returned for the task.
RobotsAnswered(i) == tasks[i].pc \notin {"queued", "robots_wait"}

\* robots_allowed returned True: fetch_one went on to its HEAD request.
RobotsSaidYes(i) == tasks[i].heads >= 1

\* C11 (as stated): when the robots.txt request of an origin failed or was
\* answered with a status other than 200, robots_allowed returns True for
\* the URLs of that origin: in the call that made the request, and in every
\* later call that is served from the cache.
C11_FailedRobotsIsPermissive ==
    \A i \in 1..Len(tasks) :
       (/\ RobotsAnswered(i)
        /\ \/ tasks[i].served = "request" /\ tasks[i].rp = NoneRp
           \/ tasks[i].served = "cache after failure")
         => RobotsSaidYes(i)

\* C13 (as stated): the name of the file in which fetch_one stores a URL
\* depends only on the URL, whatever the responses: the fetches of one URL
\* into one directory leave one file, which a re-fetch overwrites.
C13_FileNameDependsOnlyOnUrl ==
    \A f, g \in files : f.hash = g.hash => f = g

\* The event loop resumes a task whose await has completed, and every await
\* of fetch_one completes: the requests carry timeouts and the sleep is finite.
SpecDLFair == SpecDL /\ WF_vars(NextDL)

(***************************************************************************)
(* Claims about the downloader, checked under SpecDL.                      *)
(***************************************************************************)
\* The fetch_one calls in progress.
InFlight == {i \in 1..Len(tasks) : InFetch(tasks[i])}

\* C9 (as stated): /robots.txt of an origin is requested at most once and its
\* cache entry is written at most once, also when tasks of the same origin
\* run concurrently.
C9_RobotsFetchedOncePerOrigin ==
    \A o \in Origins : robots_requests[o] <= 1 /\ robots_writes[o] <= 1

\* The robots.txt the task read disallows its URL.
Disallowed(i) ==
    LET file == robots_txt[Base(urls[i])]
    IN  /\ tasks[i].rp.kind = "parsed"
        /\ file.all \/ urls[i].path \in file.paths

RECURSIVE Pow2(_)
Pow2(n) == IF n = 0 THEN 1 ELSE 2 * Pow2(n - 1)

\* What C12 says of fetch_one at each moment.  A task that sleeps after its
\* k-th failed attempt has attempt = k - 1, and backoff counts quarters of a
\* second.
RetryDiscipline ==
    \A i \in 1..Len(tasks) :
       LET t == tasks[i]
       IN  /\ t.gets <= 3
           /\ t.result.ok => t.pc = "done" /\ t.wrote /\ t.gets = t.attempt + 1
           /\ t.pc = "sleep" => t.gets = t.attempt + 1 /\ t.backoff = Pow2(t.attempt)
           /\ t.pc \in {"head", "get"} => t.attempt < 3
           /\ t.attempt = 3 => t.pc = "done" /\ t.gets = 3 /\ t.result = None

\* C12: fetch_one issues at most 3 GET requests for one URL; the first
\* successful GET ends it with the page; the wait after the k-th failed
\* attempt has the base delay 0.25 * 2^(k-1) seconds; after the third failed
\* attempt it returns None; and every fetch_one terminates.
C12_RetriesBoundedAndTerminate ==
    /\ []RetryDiscipline
    /\ <>(\A i \in 1..Len(tasks) : tasks[i].pc = "done")

\* C12 witness: a URL was dropped after three failed attempts, the last of
\* them followed by a wait of base delay 1 s, while another URL was stored
\* by its second GET.
C12_Witness ==
    \E i, j \in 1..Len(tasks) :
       /\ tasks[i].pc = "done" /\ tasks[i].attempt = 3 /\ tasks[i].gets = 3
       /\ tasks[i].backoff = 8 /\ tasks[i].result = None
       /\ tasks[j].pc = "done" /\ tasks[j].result.ok /\ tasks[j].gets = 2

\* A HEAD that failed or came without a usable Content-Length.
FailingHead(h) == h = HeadFailed \/ h = HeadAnswered(0)

\* Where the HEAD pre-flight has left each task.
HeadDiscipline ==
    \A i \in 1..Len(tasks) :
       LET t == tasks[i]
       IN  /\ FailingHead(t.head) =>
                t.pc = "get" /\ t.gets = t.heads /\ t.attempt = t.heads - 1
           /\ t.pc = "get" =>
                t.head \in HeadAnswers /\ t.head.clen <= max_bytes /\ t.gets = t.heads
           /\ t.head.clen > max_bytes =>
                /\ t.pc = "done" /\ t.result = None /\ ~t.wrote
                /\ t.gets = t.heads - 1 /\ t.attempt = t.heads - 1

\* What the step that receives the answer to a HEAD does to its task.
HeadStep ==
    \A i \in 1..Len(tasks) :
       (tasks[i].pc = "head" /\ i \in 1..Len(tasks') /\ tasks'[i] # tasks[i]) =>
          /\ tasks'[i].attempt = tasks[i].attempt
          /\ tasks'[i].backoff = tasks[i].backoff
          /\ tasks'[i].pc \in {"get", "done"}
          /\ tasks'[i].pc = "get" => tasks'[i].gets = tasks[i].gets + 1
          /\ tasks'[i].pc = "done" => tasks'[i].head.clen > max_bytes

\* C29: a HEAD that fails (exception, timeout) or carries no or a zero
\* Content-Length is followed by the GET of the same attempt and uses up no
\* attempt; a HEAD reporting a Content-Length above max_bytes ends fetch_one
\* with None, without a GET and without a retry.
C29_HeadPreflight == []HeadDiscipline /\ [][HeadStep]_vars

\* C29 witness: the GET of a URL is under way in the very attempt whose HEAD
\* failed, while another URL was skipped on the Content-Length of its HEAD.
C29_Witness ==
    \E i, j \in 1..Len(tasks) :
       /\ tasks[i].pc = "get" /\ tasks[i].head = HeadFailed /\ tasks[i].attempt = 1
       /\ tasks[j].pc = "done" /\ tasks[j].head = HeadAnswered(max_bytes + 1)
       /\ tasks[j].gets = 0 /\ tasks[j].result = None

\* A GET step that reads a body above max_bytes ends the task with None,
\* writes no file and starts no retry, whatever the HEAD had answered.
BigBodyStep ==
    \A i \in 1..Len(tasks) :
       (tasks[i].pc = "get" /\ i \in 1..Len(tasks') /\ tasks'[i].raw > max_bytes) =>
          /\ tasks'[i].pc = "done"
          /\ tasks'[i].result = None
          /\ tasks'[i].attempt = tasks[i].attempt
          /\ tasks'[i].heads = tasks[i].heads /\ tasks'[i].gets = tasks[i].gets
          /\ ~tasks'[i].wrote
          /\ files' = files

\* The pages and the bodies of the tasks and of download_many's return value.
SizeDiscipline ==
    /\ \A i \in 1..Len(tasks) :
          LET t == tasks[i]
          IN  /\ t.result.ok => t.result.size = t.raw /\ t.result.size <= max_bytes
              /\ t.raw > max_bytes => t.pc = "done" /\ t.result = None /\ ~t.wrote
    /\ \A k \in 1..Len(dlPages) : dlPages[k].ok /\ dlPages[k].size <= max_bytes

\* C30: every page fetch_one or download_many returns has size <= max_bytes;
\* a body longer than max_bytes is not written to disk, not returned and
\* not retried, whether the HEAD failed, reported no length or a small one.
C30_BodyWithinMaxBytes == []SizeDiscipline /\ [][BigBodyStep]_vars

\* C30 witness: download_many has returned the page of a body of exactly
\* max_bytes and left out a URL whose body was longer, read at the first
\* attempt, with nothing written for it.
C30_Witness ==
    /\ dlPc = "done"
    /\ Len(dlPages) = 1
    /\ dlPages[1].size = max_bytes
    /\ \E i \in 1..Len(tasks) :
         /\ tasks[i].raw = max_bytes + 1 /\ tasks[i].result = None
         /\ tasks[i].attempt = 0 /\ tasks[i].gets = 1
         /\ \A f \in files : f.hash # url_hash(urls[i])

DefaultMonteCarloSamples == 3
\* config.get("min_relevance", 0.5), in halves
DefaultMinRelevance == 1
\* manager.search(keyword, max_results=30)
SadMaxResults == 30
\* rerank(raw_results, keyword, per_domain_cap=3)
SadDomainCap == 3

Min(a, b) == IF a < b THEN a ELSE b

RECURSIVE SumTo(_, _)
\* w[1] + ... + w[i]
SumTo(w, i) == IF i = 0 THEN 0 ELSE w[i] + SumTo(w, i - 1)

\* list(itertools.accumulate(weights))
CumWeights(w) == [i \in 1..Len(w) |-> SumTo(w, i)]

RECURSIVE BisectRight(_, _, _, _)
\* bisect.bisect_right(a, x, lo, hi), positions counted from 0 as in Python.
BisectRight(a, x, lo, hi) ==
    IF lo < hi
    THEN LET mid == (lo + hi) \div 2
         IN  IF x < a[mid + 1] THEN BisectRight(a, x, lo, mid) ELSE BisectRight(a, x, mid + 1, hi)
    ELSE lo

\* random.choices: if total <= 0.0: raise ValueError('Total of weights must
\* be greater than zero')
ChoicesRaises(w) == SumTo(w, Len(w)) <= 0

\* The positions one draw of random.choices can return: bisect of
\* random() * total in the cumulative weights, with hi = n - 1.  The weights
\* are integers, so x and floor(x) compare alike with every one of them.
Draws(w) ==
    {BisectRight(CumWeights(w), x, 0, Len(w) - 1) + 1 : x \in 0..(SumTo(w, Len(w)) - 1)}

\* clean_search_query(sq) is not empty
Valid(sq) == sq # ""

\* scored_subqs of perform_monte_carlo_subqueries
Scored(subqs) == SelectSeq(subqs, Valid)

\* weights = [s for (_, s) in scored_subqs]
Weights(subqs) == [i \in 1..Len(Scored(subqs)) |-> relevance[Scored(subqs)[i]]]

\* Mutant of MonteCarloRaises: without "if not scored_subqs: return
\* subqueries", random.choices is reached with nothing to choose from.
MonteCarloRaisesOnEmpty(subqs) == ChoicesRaises(Weights(subqs))

\* perform_monte_carlo_subqueries raises (the ValueError of random.choices).
MonteCarloRaises(subqs) == Scored(subqs) # <<>> /\ ChoicesRaises(Weights(subqs))

\* What perform_monte_carlo_subqueries can return when it does not raise:
\* the list itself when nothing is scored, else k draws with replacement.
MonteCarloSelections(subqs) ==
    IF Scored(subqs) = <<>> THEN {subqs}
    ELSE LET k == Min(config.monte_carlo_samples, Len(Scored(subqs)))
         IN  {[j \in 1..k |-> Scored(subqs)[pick[j]]] : pick \in [1..k -> Draws(Weights(subqs))]}

\* clean, split and filter the query as run_session does before sampling
\* (split_query: the sentence groups of the query that are not blank).
InitialSubqueries == SelectSeq(enhanced_query, Valid)

\* monte_carlo_metrics['selection_weights'] = weights: the weights of all the
\* scored candidates, in the order of the candidates.
selection_weights ==
    IF config.monte_carlo_search /\ Scored(InitialSubqueries) # <<>>
    THEN Weights(InitialSubqueries) ELSE <<>>

RECURSIVE ZippedWeight(_, _, _, _)
\* for (query, score) in zip(selected_queries, selection_weights):
\*     if query == sq_clean: monte_carlo_weight = score; break
\* from position i on; 0.0 is the value TOCNode starts with.
ZippedWeight(sq, selected, weights, i) ==
    IF i > Min(Len(selected), Len(weights)) THEN 0
    ELSE IF selected[i] = sq THEN weights[i]
    ELSE ZippedWeight(sq, selected, weights, i + 1)

\* TOCNode(query_text, depth) as perform_recursive_web_searches sets it up.
\* The field enhance_requested records that enhance_query was called for
\* the node, enhance_failed and summary_failed that the LLM call for the
\* enhancement or the summary failed.
NewNode(sq, depth, parent_query) ==
    [query_text |-> sq, depth |-> depth,
     parent_query |-> IF parent_query # "" THEN parent_query ELSE "query",
     relevance_score |-> relevance[sq],
     monte_carlo_selected |-> sq \in Range(selected_queries),
     monte_carlo_weight |-> IF sq \in Range(selected_queries)
                            THEN ZippedWeight(sq, selected_queries, selection_weights, 1)
                            ELSE 0,
     summary |-> "", web_results |-> <<>>, corpus_entries |-> <<>>,
     web_results_count |-> 0, corpus_entries_count |-> 0,
     children |-> <<>>, summary_failed |-> FALSE,
     enhance_requested |-> FALSE, enhance_failed |-> FALSE,
     completed |-> FALSE]

\* The locals of one call of perform_recursive_web_searches.
NewFrame(subqs, depth, parent_query) ==
    [subqueries |-> subqs, idx |-> 1, depth |-> depth, parent_query |-> parent_query,
     aggregated_web_results |-> <<>>, aggregated_corpus_entries |-> <<>>,
     toc_nodes |-> <<>>, node |-> 0, ranked |-> <<>>,
     branch_web_results |-> <<>>, branch_corpus_entries |-> <<>>, pc |-> "loop"]

\* The innermost active call.
Top == frames[Len(frames)]
SetTop(f) == [frames EXCEPT ![Len(frames)] = f]

\* The engine list search_and_download builds in the session's process.
SessionEngines == BuildEngines(FALSE, TRUE, config.include_wikipedia)

\* What the two engines do in one search of the session: both fail, the
\* first fails and the second finds two pages, both find pages, or the second
\* returns a page whose date hint carries a timezone.
SessionWeb ==
    { <<[kind |-> "raise", n |-> 0], [kind |-> "raise", n |-> 0]>>,
      <<[kind |-> "raise", n |-> 0], [kind |-> "ok", n |-> 2]>>,
      <<[kind |-> "ok", n |-> 1], [kind |-> "ok", n |-> 2]>>,
      <<[kind |-> "ok", n |-> 0], [kind |-> "dated", n |-> 1]>> }

\* split_query: the sentence groups of the query that are not blank.
split_query(query) == SelectSeq(query, Valid)

\* run_session up to the first await: clean and split the query, sample the
\* sub-queries, enter the recursion.
RunSessionStart ==
    /\ sPc = "start"
    /\ LET initial_subqueries == split_query(enhanced_query)
       IN  IF config.monte_carlo_search /\ MonteCarloRaises(initial_subqueries)
           THEN /\ sPc' = "failed"
                /\ sError' = "random.choices"
                /\ frames' = <<>>
                /\ UNCHANGED selected_queries
           ELSE \E chosen \in (IF config.monte_carlo_search
                                THEN MonteCarloSelections(initial_subqueries)
                                ELSE {initial_subqueries}) :
                  /\ selected_queries' =
                        IF config.monte_carlo_search /\ Scored(initial_subqueries) # <<>>
                        THEN chosen ELSE selected_queries
                  /\ IF config.web_search_enabled /\ config.max_depth >= 1
                     THEN sPc' = "recursing" /\ frames' = <<NewFrame(chosen, 1, "")>>
                     ELSE sPc' = "retrieve" /\ frames' = <<>>
                  /\ UNCHANGED sError
    /\ UNCHANGED <<config, enhanced_query, relevance, toc, web_results, toc_tree,
                   final_answer, qsStatus, qsWebResults>>
    /\ UNCHANGED <<rngVars, kbVars, histVars, emVars, rrVars, dlVars, auxVars>>

\* Mutant of BelowFloor: the relevance gate lets every sub-query pass.
NeverBelowFloor(rel) == FALSE

\* if relevance < min_relevance: continue
BelowFloor(rel) == rel < config.min_relevance

\* The head of "for sq in subqueries": create the node, apply the relevance
\* gate and, for a sub-query that passes, call search_and_download, which
\* runs up to its first await in EngineManager.search.
VisitSubquery ==
    /\ sPc = "recursing"
    /\ Top.pc = "loop"
    /\ Top.idx <= Len(Top.subqueries)
    /\ LET sq == Top.subqueries[Top.idx]
       IN  IF ~Valid(sq) \/ BelowFloor(relevance[sq])
           THEN /\ frames' = SetTop([Top EXCEPT !.idx = @ + 1])
                /\ UNCHANGED <<toc, emVars>>
           ELSE /\ toc' = Append(toc, NewNode(sq, Top.depth, Top.parent_query))
                /\ frames' = SetTop([Top EXCEPT !.node = Len(toc) + 1, !.pc = "engines"])
                /\ engines' = SessionEngines
                /\ \E outs \in SessionWeb : outcomes' = outs
                /\ max_results' = SadMaxResults
                /\ aggregate' = <<>>
                /\ emIdx' = 1
                /\ emCalled' = <<>>
                /\ emPc' = "loop"
    /\ UNCHANGED <<sessionEnv, sPc, sError, web_results, toc_tree, selected_queries,
                   final_answer, qsStatus, qsWebResults>>
    /\ UNCHANGED <<rngVars, kbVars, histVars, rrVars, dlVars, auxVars>>

\* The components' locals after their call has returned.
EMReset ==
    /\ engines' = <<>>
    /\ outcomes' = <<>>
    /\ max_results' = 0
    /\ aggregate' = <<>>
    /\ emIdx' = 0
    /\ emCalled' = <<>>
    /\ emPc' = "idle"

DLReset ==
    /\ urls' = <<>>
    /\ concurrency' = 0
    /\ sem' = 0
    /\ tasks' = <<>>
    /\ files' = {}
    /\ dlPages' = <<>>
    /\ dlPc' = "idle"

\* urls = [r.href for r in ranked if r.href]
Hrefs(ranked) ==
    LET HasHref(r) == r.href # NoHref
        kept == SelectSeq(ranked, HasHref)
    IN  [i \in 1..Len(kept) |-> kept[i].href]

\* concurrency=self.config.get("web_concurrency", 8)
SessionConcurrency == config.web_concurrency

\* search_and_download between EngineManager.search and download_many:
\* rerank, cut to top_n, start the downloads.  An exception of score_result
\* is caught nowhere up to run_session's caller.
SearchRanked ==
    /\ sPc = "recursing"
    /\ Top.pc = "engines"
    /\ emPc = "done"
    /\ IF RerankRaises(aggregate)
       THEN /\ sPc' = "failed"
            /\ sError' = "score_result"
            /\ frames' = <<>>
            /\ UNCHANGED <<urls, concurrency, sem, tasks, files, dlPages, dlPc>>
       ELSE LET ranked == Take(rerank(aggregate, SadDomainCap), config.web_search_limit)
            IN  /\ frames' = SetTop([Top EXCEPT !.ranked = ranked, !.pc = "download"])
                /\ urls' = Hrefs(ranked)
                /\ concurrency' = SessionConcurrency
                /\ sem' = SessionConcurrency
                /\ tasks' = [i \in 1..Len(Hrefs(ranked)) |-> NewTask]
                /\ files' = {}
                /\ dlPages' = <<>>
                /\ dlPc' = "gather"
                /\ UNCHANGED <<sPc, sError>>
    /\ EMReset
    /\ UNCHANGED <<sessionEnv, toc, web_results, toc_tree, selected_queries, final_answer,
                   qsStatus, qsWebResults>>
    /\ UNCHANGED <<rngVars, kbVars, histVars, rrVars, robots_cache, robots_txt, robots_requests, robots_writes, robots_failed, auxVars>>

\* for r, page in zip(ranked, pages): parsed.append({**page, "meta": sidecar})
Parsed(ranked, pages) ==
    [i \in 1..Min(Len(ranked), Len(pages)) |->
        [url |-> pages[i].url, file_path |-> pages[i].file_path,
         content_type |-> pages[i].content_type,
         title |-> ranked[i].title, source_engine |-> ranked[i].source,
         published_hint |-> ranked[i].published]]

\* What becomes of a page in the session's loop: it is embedded, its text is
\* empty (also after a failed parse), or the embedding raises.
PageFates == {"embedded", "no text", "embedding raised"}

\* branch_web_results.append({...}) / branch_corpus_entries.append(entry).
\* The field subquery records the sub-query whose search found the page (its
\* file lies in that sub-query's directory).
WebResultOf(page, sq) ==
    [url |-> page.url, title |-> page.title, source_engine |-> page.source_engine,
     subquery |-> sq]
CorpusEntryOf(page, sq) == [url |-> page.url, file_path |-> page.file_path, subquery |-> sq]

\* The pages of the branch that end up embedded, in page order.
Embedded(pages, fate) ==
    LET Kept(i) == fate[i] = "embedded"
        idxs == SelectSeq([i \in 1..Len(pages) |-> i], Kept)
    IN  [k \in 1..Len(idxs) |-> pages[idxs[k]]]

\* download_many has returned: search_and_download attaches the sidecars and
\* returns, the session extracts and embeds every page and requests the
\* branch summary.
ProcessPages ==
    /\ sPc = "recursing"
    /\ Top.pc = "download"
    /\ dlPc = "done"
    /\ LET pages == Parsed(Top.ranked, dlPages)
       IN  \E fate \in [1..Len(pages) -> PageFates] :
             LET kept == Embedded(pages, fate)
             IN  frames' = SetTop([Top EXCEPT
                     !.branch_web_results =
                         [k \in 1..Len(kept) |-> WebResultOf(kept[k], toc[Top.node].query_text)],
                     !.branch_corpus_entries =
                         [k \in 1..Len(kept) |-> CorpusEntryOf(kept[k], toc[Top.node].query_text)],
                     !.ranked = <<>>,
                     !.pc = "summarize"])
    /\ DLReset
    /\ UNCHANGED <<sessionEnv, sPc, sError, toc, web_results, toc_tree, selected_queries,
                   final_answer, qsStatus, qsWebResults>>
    /\ UNCHANGED <<rngVars, kbVars, histVars, emVars, rrVars, robots_cache, robots_txt, robots_requests, robots_writes, robots_failed, auxVars>>

\* Mutant of FinishNode: only the web results join the aggregates.
FinishNodeWebOnly(f) ==
    [f EXCEPT !.aggregated_web_results = @ \o f.branch_web_results,
              !.toc_nodes = Append(@, f.node),
              !.idx = @ + 1, !.node = 0,
              !.branch_web_results = <<>>, !.branch_corpus_entries = <<>>,
              !.pc = "loop"]

\* The tail of the loop body: the branch joins the aggregates, the node joins
\* toc_nodes, and the loop moves on.
FinishNode(f) ==
    [f EXCEPT !.aggregated_web_results = @ \o f.branch_web_results,
              !.aggregated_corpus_entries = @ \o f.branch_corpus_entries,
              !.toc_nodes = Append(@, f.node),
              !.idx = @ + 1, !.node = 0,
              !.branch_web_results = <<>>, !.branch_corpus_entries = <<>>,
              !.pc = "loop"]

\* Mutant of Completed: the timestamp is set on every node made so far.
CompletedAll(t, node) == [n \in 1..Len(t) |-> [t[n] EXCEPT !.completed = TRUE]]

\* toc_node.timestamps['completed'] = ...
Completed(t, node) == [t EXCEPT ![node].completed = TRUE]

\* What the LLM provider's generate returns: text, or the text of its caught
\* exception.
LLMError == "Error generating response"
LLMTexts == {"text", LLMError}

\* Mutant of MayEnhance: the enhancement is requested at every depth.
EnhanceAtAnyDepth(current_depth) == TRUE

\* if current_depth < self.max_depth:
MayEnhance(current_depth) == current_depth < config.max_depth

\* The branch summary has arrived: it and the branch's lists are stored in the
\* node (the lists themselves, not copies), then the query enhancement is
\* requested or, at max_depth, the node is finished.
Summarized ==
    /\ sPc = "recursing"
    /\ Top.pc = "summarize"
    /\ \E summary \in LLMTexts :
         LET withLists == [toc EXCEPT ![Top.node] =
                 [@ EXCEPT !.summary = summary,
                           !.summary_failed = (summary = LLMError),
                           !.web_results = Top.branch_web_results,
                           !.corpus_entries = Top.branch_corpus_entries,
                           !.web_results_count = Len(Top.branch_web_results),
                           !.corpus_entries_count = Len(Top.branch_corpus_entries)]]
         IN  IF MayEnhance(Top.depth)
             THEN /\ toc' = [withLists EXCEPT ![Top.node].enhance_requested = TRUE]
                  /\ frames' = SetTop([Top EXCEPT !.pc = "enhance"])
             ELSE /\ toc' = Completed(withLists, Top.node)
                  /\ frames' = SetTop(FinishNode(Top))
    /\ UNCHANGED <<sessionEnv, sPc, sError, web_results, toc_tree, selected_queries,
                   final_answer, qsStatus, qsWebResults>>
    /\ UNCHANGED <<rngVars, kbVars, histVars, emVars, rrVars, dlVars, auxVars>>

\* The sub-queries still to be visited by the active calls.
Pending == SumTo([i \in 1..Len(frames) |-> Len(frames[i].subqueries) - frames[i].idx], Len(frames))

\* What enhance_query can return for sq, as sentence groups: nothing, sq
\* itself, or (while the session is within MaxNodes nodes) a new query or,
\* when generate failed, the text of the error, which _extract_final_query
\* hands on as it is.
EnhanceAnswers(sq) ==
    {<<>>, <<sq>>} \cup (IF Len(toc) + Pending < MaxNodes THEN {<<"c1">>, <<LLMError>>} ELSE {})

\* The enhanced query has arrived: recurse into its sub-queries, if any.
Enhanced ==
    /\ sPc = "recursing"
    /\ Top.pc = "enhance"
    /\ LET sq_clean == toc[Top.node].query_text
       IN  \E additional_query \in EnhanceAnswers(sq_clean) :
             LET additional_subqueries ==
                     IF additional_query # <<>> /\ additional_query # <<sq_clean>>
                     THEN split_query(additional_query) ELSE <<>>
             IN  IF additional_subqueries # <<>>
                 THEN /\ frames' = Append(SetTop([Top EXCEPT !.pc = "children"]),
                                         NewFrame(additional_subqueries, Top.depth + 1, sq_clean))
                      /\ toc' = [toc EXCEPT ![Top.node].enhance_failed =
                                                (additional_query = <<LLMError>>)]
                 ELSE /\ frames' = SetTop(FinishNode(Top))
                      /\ toc' = Completed(toc, Top.node)
    /\ UNCHANGED <<sessionEnv, sPc, sError, web_results, toc_tree, selected_queries,
                   final_answer, qsStatus, qsWebResults>>
    /\ UNCHANGED <<rngVars, kbVars, histVars, emVars, rrVars, dlVars, auxVars>>

\* Mutant of AdoptedParent: add_child leaves the session's query as parent.
AdoptedParentIsQuery(parent_node) == "query"

\* TOCNode.add_child: child_node.parent_query = self.query_text
AdoptedParent(parent_node) == parent_node.query_text

\* for child_node in deeper_toc_nodes: toc_node.add_child(child_node)
AddChildren(t, parent, kids) ==
    [n \in 1..Len(t) |->
        IF n = parent THEN [t[n] EXCEPT !.children = @ \o kids]
        ELSE IF n \in Range(kids) THEN [t[n] EXCEPT !.parent_query = AdoptedParent(t[parent])]
        ELSE t[n]]

\* The loop of the innermost call is exhausted: it returns.  A nested call
\* returns into its parent, which extends the branch lists (they are the
\* lists the node holds), adopts the children and finishes the node; the
\* outermost call returns into run_session, which stores the results and
\* goes on to the retrieval and the summaries.
RecursionReturn ==
    /\ sPc = "recursing"
    /\ Top.pc = "loop"
    /\ Top.idx > Len(Top.subqueries)
    /\ IF Len(frames) = 1
       THEN /\ web_results' = Top.aggregated_web_results
            /\ toc_tree' = Top.toc_nodes
            /\ frames' = <<>>
            /\ sPc' = "summaries"
            /\ UNCHANGED toc
       ELSE LET parent == frames[Len(frames) - 1]
                grown == [parent EXCEPT
                    !.branch_web_results = @ \o Top.aggregated_web_results,
                    !.branch_corpus_entries = @ \o Top.aggregated_corpus_entries]
            IN  /\ toc' = Completed(AddChildren([toc EXCEPT ![parent.node] =
                               [@ EXCEPT !.web_results = grown.branch_web_results,
                                         !.corpus_entries = grown.branch_corpus_entries]],
                               parent.node, Top.toc_nodes), parent.node)
                /\ frames' = Append(SubSeq(frames, 1, Len(frames) - 2), FinishNode(grown))
                /\ UNCHANGED <<web_results, toc_tree, sPc>>
    /\ UNCHANGED <<sessionEnv, sError, selected_queries, final_answer, qsStatus, qsWebResults>>
    /\ UNCHANGED <<rngVars, kbVars, histVars, emVars, rrVars, dlVars, auxVars>>

\* kb.search and the two summaries of run_session; a failing LLM call
\* returns its error text.
SummariesDone ==
    /\ sPc = "summaries"
    /\ sPc' = "final"
    /\ UNCHANGED <<sessionEnv, sError, frames, toc, web_results, toc_tree, selected_queries,
                   final_answer, qsStatus, qsWebResults>>
    /\ UNCHANGED <<rngVars, kbVars, histVars, emVars, rrVars, dlVars, auxVars>>

\* _build_final_answer: run_session returns what generate_final_answer
\* returns.
FinalAnswer ==
    /\ sPc = "final"
    /\ final_answer' \in LLMTexts
    /\ sPc' = "done"
    /\ UNCHANGED <<sessionEnv, sError, frames, toc, web_results, toc_tree, selected_queries,
                   qsStatus, qsWebResults>>
    /\ UNCHANGED <<rngVars, kbVars, histVars, emVars, rrVars, dlVars, auxVars>>

(***************************************************************************)
(* QueryService._process_query around run_session (query_service.py).      *)
(***************************************************************************)
\* title = web_result title, or the URL's netloc, or 'No title'
TitleOrHost(w) ==
    IF w.title # "" THEN w.title
    ELSE IF w.url # NoHref /\ w.url.netloc # "" THEN w.url.netloc ELSE "No title"

\* WebResult(title=..., url=..., snippet=..., relevance=...)
WebResult(w) == [title |-> TitleOrHost(w), url |-> w.url]

RECURSIVE ExtractFrom(_, _)
\* _extract_web_results(toc_node): the node's web_results, then those of its
\* children, depth first.
ExtractFrom(t, id) ==
    [k \in 1..Len(t[id].web_results) |-> WebResult(t[id].web_results[k])]
    \o Flatten([c \in 1..Len(t[id].children) |-> ExtractFrom(t, t[id].children[c])])

\* for node in toc_nodes: web_results.extend(self._extract_web_results(node))
ExtractWebResults(t, roots) == Flatten([r \in 1..Len(roots) |-> ExtractFrom(t, roots[r])])

\* run_session has returned: the result is recorded as COMPLETED.
RecordCompleted ==
    /\ sPc = "done"
    /\ qsStatus = "PROCESSING"
    /\ qsStatus' = "COMPLETED"
    /\ qsWebResults' = ExtractWebResults(toc, toc_tree)
    /\ UNCHANGED <<sessionEnv, sPc, sError, frames, toc, web_results, toc_tree,
                   selected_queries, final_answer>>
    /\ UNCHANGED <<rngVars, kbVars, histVars, emVars, rrVars, dlVars, auxVars>>

\* run_session has raised: except Exception records the result as FAILED.
RecordFailed ==
    /\ sPc = "failed"
    /\ qsStatus = "PROCESSING"
    /\ qsStatus' = "FAILED"
    /\ UNCHANGED <<sessionEnv, sPc, sError, frames, toc, web_results, toc_tree,
                   selected_queries, final_answer, qsWebResults>>
    /\ UNCHANGED <<rngVars, kbVars, histVars, emVars, rrVars, dlVars, auxVars>>

(***************************************************************************)
(* A whole session: Spec.                                                  *)
(***************************************************************************)
\* The sub-queries of the model: those of the user's query and the one a
\* query enhancement leads to.
QuerySubqs == {"q1", "q2"}
SubQs == QuerySubqs \cup {"c1", LLMError}

\* Relevance scores, in halves: -0.5, 0 and 0.5.  The sub-queries that an
\* enhancement leads to are never sampled, so that of their scores only the
\* side of the floor matters: they are 0 or 0.5.
Relevances == {-1, 0, 1}

Configs ==
    [monte_carlo_search : BOOLEAN,
     monte_carlo_samples : {DefaultMonteCarloSamples},
     min_relevance : {DefaultMinRelevance},
     max_depth : 1..MaxDepth,
     web_search_enabled : {TRUE},
     web_search_limit : 1..MaxSearchLimit,
     web_concurrency : 1..MaxConcurrency,
     include_wikipedia : {FALSE}]

\* The robots.txt files of the session's web: nothing disallowed, or a.com
\* disallowing everything.
SessionRobots ==
    { [o \in Origins |-> [all |-> FALSE, paths |-> {}]],
      [o \in Origins |-> [all |-> o = "a.com", paths |-> {}]] }

Init ==
    /\ config \in Configs
    /\ enhanced_query \in DistinctSeqsUpTo(QuerySubqs, MaxSubqueries)
    /\ Len(enhanced_query) * config.max_depth * config.web_search_limit <= MaxDownloads
    /\ relevance \in [SubQs -> Relevances]
    /\ \A sq \in SubQs \ QuerySubqs : relevance[sq] \in {0, DefaultMinRelevance}
    /\ sPc = "start"
    /\ sError = ""
    /\ frames = <<>>
    /\ toc = <<>>
    /\ web_results = <<>>
    /\ toc_tree = <<>>
    /\ selected_queries = <<>>
    /\ final_answer = ""
    /\ qsStatus = "PROCESSING"
    /\ qsWebResults = <<>>
    /\ EMIdle
    /\ RRIdle
    /\ DLQuiet
    /\ robots_txt \in SessionRobots
    /\ RngIdle
    /\ KBIdle
    /\ HistIdle
    /\ AuxIdle

Next ==
    \/ RunSessionStart
    \/ VisitSubquery
    \/ EngineCall
    \/ EngineReturn
    \/ SearchRanked
    \/ \E i \in 1..Len(tasks) : TaskStart(i)
    \/ \E i \in 1..Len(tasks) : RobotsResponse(i)
    \/ \E i \in 1..Len(tasks) : HeadResponse(i)
    \/ \E i \in 1..Len(tasks) : GetResponse(i)
    \/ \E i \in 1..Len(tasks) : SleepDone(i)
    \/ DownloadReturn
    \/ ProcessPages
    \/ Summarized
    \/ Enhanced
    \/ RecursionReturn
    \/ SummariesDone
    \/ FinalAnswer
    \/ RecordCompleted
    \/ RecordFailed

Spec == Init /\ [][Next]_vars

(***************************************************************************)
(* The sampler and the generator of the module random, which the whole     *)
(* process shares: SpecRng.  A value of random() is kept in halves, and a  *)
(* candidate of the sampler is its position in scored_subqs.               *)
(***************************************************************************)
\* The seeds a caller passes to random.seed.
Seeds == {1, 2}

\* The values of random(): 0.0 and 0.5.
Randoms == {0, 1}

\* The weights of the sampler's two candidates.
SamplerWeights == {<<1, 1>>, <<2, 1>>}

\* The next value of random() when the generator is in state g and i values
\* have been taken before.
RandomAt(g, i) == stream[<<g.seed, g.drawn + i>>]

\* The generator after n more draws.
Advance(g, n) == [g EXCEPT !.drawn = @ + n]

\* random.choices(population, weights, k=k) with the generator in state g:
\* [population[bisect(cum_weights, random() * total, 0, n - 1)] for k times]
Choices(w, k, g) ==
    [j \in 1..k |->
        BisectRight(CumWeights(w), (RandomAt(g, j - 1) * SumTo(w, Len(w))) \div 2, 0, Len(w) - 1)
        + 1]

\* random.seed(s), the one way a caller has to fix the sampler's generator.
SeedRandom ==
    /\ \E s \in Seeds : rng' = [seed |-> s, drawn |-> 0]
    /\ UNCHANGED <<stream, mc_calls>>
    /\ UNCHANGED <<emVars, rrVars, dlVars, sVars, kbVars, histVars, auxVars>>

\* fetch_one, in some download of the process, draws the jitter of a sleep:
\* random.random() * 0.2
JitterDraw ==
    /\ rng.drawn < MaxDraws
    /\ rng' = Advance(rng, 1)
    /\ UNCHANGED <<stream, mc_calls>>
    /\ UNCHANGED <<emVars, rrVars, dlVars, sVars, kbVars, histVars, auxVars>>

\* A call of perform_monte_carlo_subqueries with two valid candidates of the
\* weights w: k = min(monte_carlo_samples, 2) draws of the shared generator.
SamplerCall ==
    /\ Len(mc_calls) < MaxSamplerCalls
    /\ \E w \in SamplerWeights :
         LET k == Min(DefaultMonteCarloSamples, Len(w))
         IN  /\ rng.drawn + k <= MaxDraws
             /\ mc_calls' = Append(mc_calls, [seed |-> rng.seed, weights |-> w,
                                              selection |-> Choices(w, k, rng)])
             /\ rng' = Advance(rng, k)
    /\ UNCHANGED stream
    /\ UNCHANGED <<emVars, rrVars, dlVars, sVars, kbVars, histVars, auxVars>>

\* The caller has seeded the generator; what it yields from a seed on is
\* fixed, whatever it is.
InitRng ==
    /\ \E s \in Seeds : rng = [seed |-> s, drawn |-> 0]
    /\ stream \in [Seeds \X (0..(MaxDraws - 1)) -> Randoms]
    /\ mc_calls = <<>>
    /\ EMIdle
    /\ RRIdle
    /\ DLIdle
    /\ SIdle
    /\ KBIdle
    /\ HistIdle
    /\ AuxIdle

NextRng ==
    \/ SeedRandom
    \/ JitterDraw
    \/ SamplerCall

SpecRng == InitRng /\ [][NextRng]_vars

\* C19 (as stated): two calls of perform_monte_carlo_subqueries with the same
\* candidates and weights under the same seed return the same selection,
\* whatever else drew from a random generator in the process.
C19_SamplerDeterministic ==
    \A i, j \in 1..Len(mc_calls) :
       (mc_calls[i].seed = mc_calls[j].seed /\ mc_calls[i].weights = mc_calls[j].weights)
          => mc_calls[i].selection = mc_calls[j].selection

(***************************************************************************)
(* The knowledge base of a session (knowledge_base.py, and the places of    *)
(* search_session.py that fill and search it): SpecKB.  An embedding is     *)
(* kept as the encoder and the head it comes from, whether its L2 norm is   *)
(* 1, and its cosine with the enhanced query.                               *)
(***************************************************************************)
\* Most files load_corpus_from_dir is given.
MaxFiles == 2
\* Most pages a session embeds.
MaxWebEntries == 2
\* Largest top_k passed to KnowledgeBase.search.
MaxTopK == 3

\* The model_type values load_retrieval_model returns.
ModelTypes == {"colpali", "all-minilm", "siglip", "clip"}

\* The files of a corpus directory: a text file, a PDF with a text layer, a
\* PDF of page images only, an image showing text, an image showing none,
\* a file of another extension.
FileKinds == {"txt", "pdf", "scanned pdf", "image", "blank image", "other"}

\* late_interaction_score against the enhanced query: -1, 0 or 1.
Cosines == {-1, 0, 1}

\* The width of the vectors of each encoder.
Dim(encoder) ==
    CASE encoder = "all-MiniLM-L6-v2" -> 384
      [] encoder = "colpali" -> 128
      [] encoder = "siglip" -> 768
      [] encoder = "clip" -> 512

\* What an encoder puts out, before any normalisation by the program.
Raw(encoder, head, unit, cos) == [encoder |-> encoder, head |-> head, unit |-> unit, cos |-> cos]

\* x / (x.norm(dim=-1, keepdim=True) + 1e-12)
l2norm(x) == [x EXCEPT !.unit = TRUE]

\* SentenceTransformer("all-MiniLM-L6-v2").encode: the model ends with a
\* normalisation layer, so its output has norm 1.
SentenceEncode(cos) == Raw("all-MiniLM-L6-v2", "text", TRUE, cos)

IsVision(mt) == mt \in {"siglip", "clip"}

\* Mutant of TextModel: the session loads no companion text embedder.
NoTextModel(mt) == FALSE

\* self.text_model is set: SearchSession.__init__ loads it for siglip, clip.
TextModel(mt) == IsVision(mt)

\* embed_text: every branch ends in _l2norm.  unit tells whether the raw
\* output of the model happened to have norm 1.
embed_text(mt, cos, unit) ==
    IF mt = "all-minilm" THEN l2norm(SentenceEncode(cos)) ELSE l2norm(Raw(mt, "text", unit, cos))

\* _pool_mean: the normalised mean of embeddings of one space.
pool_mean(embs) == l2norm(embs[1])

\* _embed_long_text: embed_text on every chunk, then _pool_mean.
embed_long_text(mt, cos, unit) == pool_mean(<<embed_text(mt, cos, unit)>>)

\* _embed_image: the image head of siglip or clip, normalised.
embed_image(mt, cos, unit) == l2norm(Raw(mt, "image", unit, cos))

\* self.enhanced_query_embedding (SearchSession.__init__), and the query
\* embedding of retrieve.
QueryEmbedding(mt, unit) ==
    IF IsVision(mt) /\ TextModel(mt) THEN SentenceEncode(1) ELSE embed_text(mt, 1, unit)

\* The embedding of a downloaded page in perform_recursive_web_searches:
\* <<emb>>, or <<>> when the embedding raises (SiglipModel and CLIPModel have
\* no encode) and the page is skipped.
PageEmbedding(mt, cos, unit) ==
    IF IsVision(mt) /\ TextModel(mt) THEN <<SentenceEncode(cos)>>
    ELSE IF mt = "colpali" THEN <<Raw("colpali", "text", unit, cos)>>
    ELSE IF mt = "all-minilm" THEN <<SentenceEncode(cos)>>
    ELSE <<>>

\* text.strip() of a file in load_corpus_from_dir is not empty: a .txt, a PDF
\* with a text layer, or, for a text-only model, an image read by OCR.
HasText(kind, mt) == kind \in {"txt", "pdf"} \/ (kind = "image" /\ ~IsVision(mt))

\* img_embs of a file: for siglip and clip the pages of a PDF (two of them
\* here) or the image itself.
ImgEmbs(kind, mt, cos, unit) ==
    IF ~IsVision(mt) THEN <<>>
    ELSE IF kind \in {"pdf", "scanned pdf"}
         THEN <<embed_image(mt, cos, unit), embed_image(mt, cos, unit)>>
    ELSE IF kind \in {"image", "blank image"} THEN <<embed_image(mt, cos, unit)>>
    ELSE <<>>

\* embs of a file ("Build final embedding"): the text embedding when there
\* is text; for siglip and clip without text, the OCR text of an image file
\* through the text embedder, or the image embeddings when the session has
\* no text embedder.
Embs(kind, mt, cos, unit) ==
    (IF HasText(kind, mt)
     THEN IF IsVision(mt) /\ TextModel(mt)
          THEN <<l2norm(SentenceEncode(cos))>>
          ELSE <<embed_long_text(mt, cos, unit)>>
     ELSE <<>>)
    \o (IF IsVision(mt)
        THEN IF ~HasText(kind, mt) /\ ImgEmbs(kind, mt, cos, unit) # <<>>
             THEN IF TextModel(mt)
                  THEN IF kind = "image" THEN <<l2norm(SentenceEncode(cos))>> ELSE <<>>
                  ELSE ImgEmbs(kind, mt, cos, unit)
             ELSE <<>>
        ELSE ImgEmbs(kind, mt, cos, unit))

\* The corpus entries load_corpus_from_dir makes of one file: none or one.
LocalEntries(kind, mt, cos, unit) ==
    LET embs == Embs(kind, mt, cos, unit)
    IN  IF kind = "other" \/ embs = <<>> THEN <<>>
        ELSE <<[type |-> "local", file_path |-> kind,
                embedding |-> IF Len(embs) > 1 THEN pool_mean(embs) ELSE embs[1]]>>

\* The corpus entries made of one downloaded page: none or one.
WebEntries(mt, cos, unit) ==
    LET emb == PageEmbedding(mt, cos, unit)
    IN  IF emb = <<>> THEN <<>>
        ELSE <<[type |-> "webhtml", file_path |-> "page", embedding |-> emb[1]]>>

\* Where np.argsort puts index i in an ascending order of indices: behind
\* every index whose score is at most scores[i].
InsertAscending(order, scores, i) ==
    LET n == Cardinality({j \in 1..Len(order) : scores[order[j]] <= scores[i]})
    IN  SubSeq(order, 1, n) \o <<i>> \o SubSeq(order, n + 1, Len(order))

RECURSIVE ArgSortFrom(_, _, _)
ArgSortFrom(order, scores, i) ==
    IF i > Len(scores) THEN order
    ELSE ArgSortFrom(InsertAscending(order, scores, i), scores, i + 1)

\* np.argsort(scores)
argsort(scores) == ArgSortFrom(<<>>, scores, 1)

\* s[-k:] for k >= 0; -0 is 0, so s[-0:] is all of s.
LastK(s, k) == IF k = 0 THEN s ELSE SubSeq(s, (IF k < Len(s) THEN Len(s) - k ELSE 0) + 1, Len(s))

\* s[::-1]
Reversed(s) == [j \in 1..Len(s) |-> s[Len(s) + 1 - j]]

\* retrieve: score every entry, top_indices = np.argsort(scores)[-top_k:][::-1].
retrieve(corpus, k) ==
    LET scores == [i \in 1..Len(corpus) |-> corpus[i].embedding.cos]
        top_indices == Reversed(LastK(argsort(scores), k))
    IN  [j \in 1..Len(top_indices) |-> corpus[top_indices[j]]]

\* One iteration of the loop of load_corpus_from_dir: the next file is read,
\* embedded and appended, or skipped.
LoadCorpusFile ==
    /\ kbPc = "loading"
    /\ corpus_dir # <<>>
    /\ \E cos \in Cosines : \E unit \in BOOLEAN :
         kb_corpus' = kb_corpus \o LocalEntries(Head(corpus_dir), model_type, cos, unit)
    /\ corpus_dir' = Tail(corpus_dir)
    /\ UNCHANGED <<model_type, enhanced_query_embedding, top_k, local_results, kbPc>>
    /\ UNCHANGED <<emVars, rrVars, dlVars, sVars, rngVars, histVars, auxVars>>

\* self.kb.add_documents(self.corpus): the constructor of the session ends.
AddDocuments ==
    /\ kbPc = "loading"
    /\ corpus_dir = <<>>
    /\ kbPc' = "ready"
    /\ UNCHANGED <<model_type, corpus_dir, kb_corpus, enhanced_query_embedding, top_k,
                   local_results>>
    /\ UNCHANGED <<emVars, rrVars, dlVars, sVars, rngVars, histVars, auxVars>>

RECURSIVE EntriesOf(_, _)
\* The entries of the pages whose cosines and raw norms are listed in ps.
EntriesOf(mt, ps) ==
    IF ps = <<>> THEN <<>>
    ELSE WebEntries(mt, Head(ps)[1], Head(ps)[2]) \o EntriesOf(mt, Tail(ps))

\* run_session with web search: the pages of the recursion are embedded and
\* self.kb.add_documents(web_entries) appends their entries.
AddWebEntries ==
    /\ kbPc = "ready"
    /\ \E ps \in SeqsUpTo(Cosines \X BOOLEAN, MaxWebEntries) :
         kb_corpus' = kb_corpus \o EntriesOf(model_type, ps)
    /\ kbPc' = "expanded"
    /\ UNCHANGED <<model_type, corpus_dir, enhanced_query_embedding, top_k, local_results>>
    /\ UNCHANGED <<emVars, rrVars, dlVars, sVars, rngVars, histVars, auxVars>>

\* self.local_results = self.kb.search(self.enhanced_query, top_k=self.top_k)
KBSearch ==
    /\ kbPc \in {"ready", "expanded"}
    /\ \E k \in 0..MaxTopK :
         /\ top_k' = k
         /\ local_results' = retrieve(kb_corpus, k)
    /\ kbPc' = "searched"
    /\ UNCHANGED <<model_type, corpus_dir, kb_corpus, enhanced_query_embedding>>
    /\ UNCHANGED <<emVars, rrVars, dlVars, sVars, rngVars, histVars, auxVars>>

\* SearchSession.__init__ up to the loading of the local corpus.
InitKB ==
    /\ model_type \in ModelTypes
    /\ corpus_dir \in SeqsUpTo(FileKinds, MaxFiles)
    /\ kb_corpus = <<>>
    /\ \E unit \in BOOLEAN : enhanced_query_embedding = QueryEmbedding(model_type, unit)
    /\ top_k = 0
    /\ local_results = <<>>
    /\ kbPc = "loading"
    /\ EMIdle
    /\ RRIdle
    /\ DLIdle
    /\ SIdle
    /\ RngIdle
    /\ HistIdle
    /\ AuxIdle

NextKB == LoadCorpusFile \/ AddDocuments \/ AddWebEntries \/ KBSearch

SpecKB == InitKB /\ [][NextKB]_vars

(***************************************************************************)
(* Claims about the knowledge base, checked under SpecKB.                  *)
(***************************************************************************)
\* The number of entries of a list whose score is above c.
Above(entries, c) == Cardinality({i \in 1..Len(entries) : entries[i].embedding.cos > c})

\* What a search has returned.
SearchResultOk ==
    kbPc = "searched" =>
      LET n == Len(kb_corpus)
          m == Len(local_results)
      IN  /\ m = (IF top_k < n THEN top_k ELSE n)
          /\ \A p, q \in 1..m : p < q =>
                local_results[p].embedding.cos >= local_results[q].embedding.cos
          /\ Range(local_results) \subseteq Range(kb_corpus)
          /\ \A c \in Cosines :
                Above(local_results, c) =
                   (IF Above(kb_corpus, c) < m THEN Above(kb_corpus, c) ELSE m)

\* The step of a search leaves the knowledge base as it was.
SearchKeepsKB == kbPc' = "searched" => kb_corpus' = kb_corpus

\* C23 (as stated): KnowledgeBase.search(query, k) over n entries returns
\* exactly min(k, n) entries for every k >= 0, in non-increasing order of
\* score, no entry left out scoring strictly higher than one returned, and
\* leaves the knowledge base unchanged.
C23_SearchTopK == []SearchResultOk /\ [][SearchKeepsKB]_vars

\* C24 (as stated): every entry of the session's knowledge base, local or
\* from a web page, has an embedding of L2 norm 1, whatever the retrieval
\* model.
C24_UnitNorm == \A i \in 1..Len(kb_corpus) : kb_corpus[i].embedding.unit

MaxMaxQueries == 2

QueryIds == {"q1", "q2", "q3"}
ExportNames == {"e1.md"}
\* The created timestamps of the root nodes in toc_analysis.json.
CreatedAts == {1, 2}

\* What results/ holds for a query id: nothing, a directory without a
\* readable toc_analysis.json, or a directory with one.
NoDir == [dir |-> FALSE, toc |-> FALSE, created_at |-> 0]
DirNoToc == [dir |-> TRUE, toc |-> FALSE, created_at |-> 0]
DirToc(t) == [dir |-> TRUE, toc |-> TRUE, created_at |-> t]

\* The metadata entry of the index.
Metadata(query_id, export_file) == [query_id |-> query_id, export_file |-> export_file]

\* The latest call, with what it took out of the index.
Call(op, query_id, export_file, removed) ==
    [op |-> op, query_id |-> query_id, export_file |-> export_file, removed |-> removed]

\* next((i for i, q in enumerate(index) if q['query_id'] == query_id), None),
\* counted from 1; 0 for None.
existing_index(idx, query_id) ==
    IF \E i \in 1..Len(idx) : idx[i].query_id = query_id
    THEN CHOOSE i \in 1..Len(idx) :
            idx[i].query_id = query_id /\ \A j \in 1..(i - 1) : idx[j].query_id # query_id
    ELSE 0

\* Mutant of Newest: the cut keeps one entry more.
NewestAndOneMore(idx, n) == Take(idx, n + 1)

\* index[:self.max_queries]
Newest(idx, n) == Take(idx, n)

\* index[self.max_queries:]
Oldest(idx, n) == SubSeq(idx, n + 1, Len(idx))

\* results/ after _delete_query_files on every entry of removed.
DirsWithout(removed) ==
    [q \in QueryIds |-> IF \E i \in 1..Len(removed) : removed[i].query_id = q
                        THEN NoDir ELSE results_dir[q]]

\* exports/ after _delete_query_files on every entry of removed.
ExportsWithout(removed) == exports_dir \ {removed[i].export_file : i \in 1..Len(removed)}

\* "Perform cleanup if exceeding max_queries", then _save_index.
CleanupAndSave(op, query_id, export_file, idx) ==
    LET to_remove == IF Len(idx) > max_queries THEN Oldest(idx, max_queries) ELSE <<>>
    IN  /\ index' = (IF Len(idx) > max_queries THEN Newest(idx, max_queries) ELSE idx)
        /\ results_dir' = DirsWithout(to_remove)
        /\ exports_dir' = ExportsWithout(to_remove)
        /\ last_call' = Call(op, query_id, export_file, to_remove)

\* add_query(result, export_filename)
AddQuery(query_id, export_file) ==
    /\ max_queries > 0
    /\ LET at == existing_index(index, query_id)
           metadata == Metadata(query_id, export_file)
       IN  CleanupAndSave("add_query", query_id, export_file,
                          IF at # 0 THEN [index EXCEPT ![at] = metadata]
                          ELSE <<metadata>> \o index)
    /\ UNCHANGED max_queries
    /\ UNCHANGED <<emVars, rrVars, dlVars, sVars, rngVars, kbVars, auxVars>>

\* delete_query(query_id)
DeleteQuery(query_id) ==
    /\ max_queries > 0
    /\ LET Other(entry) == entry.query_id # query_id
           Same(entry) == entry.query_id = query_id
           new_index == SelectSeq(index, Other)
           found == SelectSeq(index, Same)
       IN  IF found # <<>>
           THEN /\ index' = new_index
                /\ results_dir' = DirsWithout(<<found[Len(found)]>>)
                /\ exports_dir' = ExportsWithout(<<found[Len(found)]>>)
                /\ last_call' = Call("delete_query", query_id, "", found)
           ELSE /\ last_call' = Call("delete_query", query_id, "", <<>>)
                /\ UNCHANGED <<index, results_dir, exports_dir>>
    /\ UNCHANGED max_queries
    /\ UNCHANGED <<emVars, rrVars, dlVars, sVars, rngVars, kbVars, auxVars>>

\* clear_all()
ClearAll ==
    /\ max_queries > 0
    /\ index' = <<>>
    /\ results_dir' = DirsWithout(index)
    /\ exports_dir' = ExportsWithout(index)
    /\ last_call' = Call("clear_all", "", "", index)
    /\ UNCHANGED max_queries
    /\ UNCHANGED <<emVars, rrVars, dlVars, sVars, rngVars, kbVars, auxVars>>

\* Where a stable descending sort by created_at puts an entry.
InsertByCreatedAt(sorted, query_id) ==
    LET n == Cardinality({i \in 1..Len(sorted) :
                 results_dir[sorted[i]].created_at >= results_dir[query_id].created_at})
    IN  SubSeq(sorted, 1, n) \o <<query_id>> \o SubSeq(sorted, n + 1, Len(sorted))

RECURSIVE SortByCreatedAt(_, _)
\* index.sort(key=lambda x: x.get('created_at', ''), reverse=True)
SortByCreatedAt(sorted, ids) ==
    IF ids = <<>> THEN sorted
    ELSE SortByCreatedAt(InsertByCreatedAt(sorted, Head(ids)), Tail(ids))

\* sync_from_results_folder(): the directories with a readable
\* toc_analysis.json, in the order os.listdir gives them, make the index.
SyncFromResultsFolder ==
    /\ max_queries > 0
    /\ LET with_toc == {q \in QueryIds : results_dir[q].toc}
       IN  \E query_dirs \in DistinctSeqsUpTo(with_toc, Cardinality(with_toc)) :
             /\ Len(query_dirs) = Cardinality(with_toc)
             /\ LET sorted == SortByCreatedAt(<<>>, query_dirs)
                IN  CleanupAndSave("sync_from_results_folder", "", "",
                                   [i \in 1..Len(sorted) |-> Metadata(sorted[i], "")])
    /\ UNCHANGED max_queries
    /\ UNCHANGED <<emVars, rrVars, dlVars, sVars, rngVars, kbVars, auxVars>>

\* A session writes results/{query_id}/, with or without toc_analysis.json.
SessionWritesResults(query_id) ==
    /\ max_queries > 0
    /\ ~results_dir[query_id].dir
    /\ \E d \in {DirNoToc} \cup {DirToc(t) : t \in CreatedAts} :
         results_dir' = [results_dir EXCEPT ![query_id] = d]
    /\ last_call' = Call("session", query_id, "", <<>>)
    /\ UNCHANGED <<max_queries, index, exports_dir>>
    /\ UNCHANGED <<emVars, rrVars, dlVars, sVars, rngVars, kbVars, auxVars>>

\* The export service writes a file under exports/.
ExportWritten(name) ==
    /\ max_queries > 0
    /\ name \notin exports_dir
    /\ exports_dir' = exports_dir \cup {name}
    /\ last_call' = Call("export", "", name, <<>>)
    /\ UNCHANGED <<max_queries, index, results_dir>>
    /\ UNCHANGED <<emVars, rrVars, dlVars, sVars, rngVars, kbVars, auxVars>>

\* HistoryService(max_queries=n) in a fresh working directory.
InitHistory ==
    /\ max_queries \in 1..MaxMaxQueries
    /\ index = <<>>
    /\ results_dir = [q \in QueryIds |-> NoDir]
    /\ exports_dir = {}
    /\ last_call = Call("__init__", "", "", <<>>)
    /\ EMIdle
    /\ RRIdle
    /\ DLIdle
    /\ SIdle
    /\ RngIdle
    /\ KBIdle
    /\ AuxIdle

NextHistory ==
    \/ \E q \in QueryIds : \E e \in ExportNames \cup {""} : AddQuery(q, e)
    \/ \E q \in QueryIds : DeleteQuery(q)
    \/ ClearAll
    \/ SyncFromResultsFolder
    \/ \E q \in QueryIds : SessionWritesResults(q)
    \/ \E e \in ExportNames : ExportWritten(e)

SpecHistory == InitHistory /\ [][NextHistory]_vars

(***************************************************************************)
(* Claims about HistoryService, checked under SpecHistory.                 *)
(***************************************************************************)
\* The index is within max_queries and holds no query_id twice; what the
\* latest call evicted is gone from results/ and exports/.
IndexDiscipline ==
    /\ Len(index) <= max_queries
    /\ \A i, j \in 1..Len(index) : i # j => index[i].query_id # index[j].query_id
    /\ last_call.op = "add_query" =>
          /\ \A i \in 1..Len(last_call.removed) :
                /\ ~results_dir[last_call.removed[i].query_id].dir
                /\ last_call.removed[i].export_file \notin exports_dir
                /\ \A j \in 1..Len(index) :
                      index[j].query_id # last_call.removed[i].query_id
          /\ \E i \in 1..Len(index) :
                index[i] = Metadata(last_call.query_id, last_call.export_file)

\* What a step of add_query does to the index.
AddQueryStep ==
    last_call'.op = "add_query" =>
       LET metadata == Metadata(last_call'.query_id, last_call'.export_file)
           at == existing_index(index, last_call'.query_id)
       IN  IF at = 0
           THEN /\ index'[1] = metadata
                /\ \A i \in 2..Len(index') : index'[i] = index[i - 1]
                /\ Len(index') = (IF Len(index) < max_queries THEN Len(index) + 1
                                  ELSE max_queries)
                /\ last_call'.removed = SubSeq(index, max_queries, Len(index))
           ELSE /\ index' = [index EXCEPT ![at] = metadata]
                /\ last_call'.removed = <<>>
                /\ results_dir' = results_dir
                /\ exports_dir' = exports_dir

\* C27: after any sequence of add_query, delete_query, clear_all and
\* sync_from_results_folder the index holds at most max_queries entries and
\* no query_id twice; add_query of a new id puts it first and evicts the
\* entries beyond max_queries, whose result directories and export files it
\* deletes; add_query of an id already present replaces that entry in place.
C27_HistoryIndex == []IndexDiscipline /\ [][AddQueryStep]_vars

\* C27 witness: with a full index, add_query of a new id has put it first
\* and evicted the oldest entry together with its directory and its export
\* file, which both had existed.
C27_Witness ==
    /\ max_queries = 2
    /\ last_call.op = "add_query"
    /\ Len(index) = 2
    /\ index[1].query_id = last_call.query_id
    /\ Len(last_call.removed) = 1
    /\ last_call.removed[1].export_file # ""
    /\ results_dir[index[2].query_id].toc

(***************************************************************************)
(* DuckDuckGoEngine.search.  One step per call the coroutine makes on the  *)
(* library or on asyncio.sleep.  A hit of DDGS.text is told by its href:   *)
(* 0 is a hit without href.  text either raises or returns its whole list. *)
(* ddg_trace records the calls in order: the sleeps with their argument    *)
(* and the text calls with the attempt that made them and what they        *)
(* returned (ghost).                                                       *)
(***************************************************************************)
\* Largest max_results passed to DuckDuckGoEngine.search in SpecDDG.
MaxDdgMaxResults == 2
\* Longest list DDGS.text returns in SpecDDG.
MaxHits == 3

\* for attempt in range(3)
DdgAttempts == 3
\* await asyncio.sleep(1) after a failure outside the text call
ErrorSleep == 1

Hits == SeqsUpTo(0..2, MaxHits)

\* A backoff that does not grow.
BackoffFlat(attempt) == 2

\* await asyncio.sleep(2 ** attempt)
Backoff(attempt) == 2 ^ attempt

SleepEvent(secs) == [op |-> "sleep", secs |-> secs, attempt |-> 0, hits |-> <<>>]
TextEvent(attempt, hits) == [op |-> "text", secs |-> 0, attempt |-> attempt, hits |-> hits]
TextRaised == <<9>>

DdgResult(href, attempt) == [href |-> href, source |-> "ddg", attempt |-> attempt]

RECURSIVE Collect(_, _, _, _)
\* The for loop over ddgs.text(...): hits without href are skipped, the
\* others appended, and the loop breaks once results holds max_results.
Collect(res, hits, max, attempt) ==
    IF hits = <<>> THEN res
    ELSE IF Head(hits) = 0 THEN Collect(res, Tail(hits), max, attempt)
    ELSE LET r == Append(res, DdgResult(Head(hits), attempt))
         IN  IF Len(r) >= max THEN r
             ELSE Collect(r, Tail(hits), max, attempt)

\* The next iteration of the for loop, or the return after it.
DdgNextAttempt ==
    /\ ddg_attempt' = ddg_attempt + 1
    /\ ddgPc' = IF ddg_attempt + 1 < DdgAttempts THEN "attempt" ELSE "done"

\* with DDGS() as ddgs: the session is built, or building it raises and the
\* outer handler takes over.
DdgEnter ==
    /\ ddgPc = "attempt"
    /\ \/ /\ ddgPc' = IF ddg_attempt > 0 THEN "backoff" ELSE "query"
          /\ UNCHANGED ddg_attempt
       \/ IF ddg_attempt < 2
          THEN ddgPc' = "error_sleep" /\ UNCHANGED ddg_attempt
          ELSE DdgNextAttempt
    /\ UNCHANGED <<ddg_max_results, ddg_results, ddg_trace>>

\* if attempt > 0: await asyncio.sleep(2 ** attempt)
DdgBackoff ==
    /\ ddgPc = "backoff"
    /\ ddg_trace' = Append(ddg_trace, SleepEvent(Backoff(ddg_attempt)))
    /\ ddgPc' = "query"
    /\ UNCHANGED <<ddg_max_results, ddg_attempt, ddg_results>>

\* ddgs.text raises: the inner handler logs and continues with the next
\* attempt.
DdgTextRaises ==
    /\ ddgPc = "query"
    /\ ddg_trace' = Append(ddg_trace, TextEvent(ddg_attempt, TextRaised))
    /\ DdgNextAttempt
    /\ UNCHANGED <<ddg_max_results, ddg_results>>

\* ddgs.text returns hits: they are collected, and search returns when
\* results is not empty.
DdgText(hits) ==
    /\ ddgPc = "query"
    /\ ddg_trace' = Append(ddg_trace, TextEvent(ddg_attempt, hits))
    /\ ddg_results' = Collect(ddg_results, hits, ddg_max_results, ddg_attempt)
    /\ IF ddg_results' # <<>>
       THEN ddgPc' = "done" /\ UNCHANGED ddg_attempt
       ELSE DdgNextAttempt
    /\ UNCHANGED ddg_max_results

\* The outer handler: if attempt < 2: await asyncio.sleep(1)
DdgErrorSleep ==
    /\ ddgPc = "error_sleep"
    /\ ddg_trace' = Append(ddg_trace, SleepEvent(ErrorSleep))
    /\ DdgNextAttempt
    /\ UNCHANGED <<ddg_max_results, ddg_results>>

nonDdgVars == <<emVars, rrVars, dlVars, sVars, rngVars, kbVars, histVars, sxVars, qsVars, wsVars, lgVars>>

InitDDG ==
    /\ ddg_max_results \in 1..MaxDdgMaxResults
    /\ ddg_attempt = 0
    /\ ddg_results = <<>>
    /\ ddg_trace = <<>>
    /\ ddgPc = "attempt"
    /\ EMIdle
    /\ RRIdle
    /\ DLIdle
    /\ SIdle
    /\ RngIdle
    /\ KBIdle
    /\ HistIdle
    /\ SxIdle
    /\ QSIdle
    /\ WSIdle
    /\ LogIdle

NextDDG ==
    \/ DdgEnter /\ UNCHANGED nonDdgVars
    \/ DdgBackoff /\ UNCHANGED nonDdgVars
    \/ DdgTextRaises /\ UNCHANGED nonDdgVars
    \/ (\E hits \in Hits : DdgText(hits)) /\ UNCHANGED nonDdgVars
    \/ DdgErrorSleep /\ UNCHANGED nonDdgVars

SpecDDG == InitDDG /\ [][NextDDG]_vars

(***************************************************************************)
(* Claims about DuckDuckGoEngine.search, checked under SpecDDG.            *)
(***************************************************************************)
TextCalls == {i \in 1..Len(ddg_trace) : ddg_trace[i].op = "text"}

\* The text call at position i of the trace was made after the wait its
\* attempt requires: none for the first attempt, 2^n seconds right before
\* the call for retry attempt n.
WaitedBefore(i) ==
    LET n == ddg_trace[i].attempt
    IN  IF n = 0 THEN i = 1
        ELSE /\ i > 1
             /\ ddg_trace[i - 1] = SleepEvent(2 ^ n)

\* The results are those of the last text call alone, collected from what
\* it returned.
FromLastCall ==
    LET last == ddg_trace[Len(ddg_trace)]
    IN  /\ ddg_trace # <<>>
        /\ last.op = "text"
        /\ last.hits # TextRaised
        /\ ddg_results = Collect(<<>>, last.hits, ddg_max_results, last.attempt)
        /\ \A j \in TextCalls \ {Len(ddg_trace)} :
               Collect(<<>>, ddg_trace[j].hits, ddg_max_results, 0) = <<>>
                   \/ ddg_trace[j].hits = TextRaised

\* C31: DuckDuckGoEngine.search calls DDGS.text at most three times, once
\* per attempt 0, 1, 2 in order; the call of retry attempt n comes right
\* after a sleep of 2^n seconds; as soon as a call leaves results non-empty
\* the search returns; it always ends by returning, with at most
\* max_results results, all with an href and all collected from the one call
\* that succeeded.
C31_DdgRetry ==
    /\ ddgPc \in {"attempt", "backoff", "query", "error_sleep", "done"}
    /\ ddg_attempt \in 0..DdgAttempts
    /\ Cardinality(TextCalls) <= DdgAttempts
    /\ \A i \in TextCalls : WaitedBefore(i)
    /\ \A i, j \in TextCalls : i < j => ddg_trace[i].attempt < ddg_trace[j].attempt
    /\ ddg_results # <<>> => ddgPc = "done" /\ FromLastCall
    /\ ddgPc # "done" => ddg_attempt < DdgAttempts
    /\ Len(ddg_results) <= ddg_max_results
    /\ \A i \in 1..Len(ddg_results) : ddg_results[i].href # 0

\* The third attempt succeeds after the first failed outside the text call
\* and the second inside it, with more hits than max_results and a hit
\* without href among them.
C31_Witness ==
    /\ ddgPc = "done"
    /\ ddg_max_results = 2
    /\ Len(ddg_results) = 2
    /\ ddg_results[1].attempt = 2
    /\ ddg_trace = <<SleepEvent(ErrorSleep), SleepEvent(2), TextEvent(1, TextRaised),
                     SleepEvent(4), TextEvent(2, <<0, 1, 2>>)>>

(***************************************************************************)
(* SearxNGEngine over the search_and_download calls of one process.  Each  *)
(* call builds its own engine list, SearxNGEngine() included, and the      *)
(* EngineManager calls each engine's search at most once.  An endpoint is  *)
(* a number; None is 0.  A probe answers 200, another status, or raises    *)
(* (status 0).                                                             *)
(***************************************************************************)
\* How many search_and_download calls a process makes in SpecSearx.
MaxSadCalls == 2
\* How many endpoints DEFAULT_ENDPOINTS holds in SpecSearx.
MaxEndpoints == 2

\* if r.status == 200
OK200 == 200
ProbeStatuses == {OK200, 503, 0}

\* random.shuffle: every order of n elements.
Shuffles(n) ==
    {p \in [1..n -> 1..n] : \A i, j \in 1..n : p[i] = p[j] => i = j}

ProbeEvent(call, base, status) ==
    [op |-> "probe", call |-> call, base |-> base, status |-> status]
QueryEvent(call, base) ==
    [op |-> "query", call |-> call, base |-> base, status |-> 0]

\* search_and_download: engines.append(SearxNGEngine()); __init__ sets
\* _good_endpoint = None and endpoints to the class's list.
SxConstruct ==
    /\ sxPc = "idle"
    /\ sx_call < MaxSadCalls
    /\ sx_call' = sx_call + 1
    /\ sx_good_endpoint' = 0
    /\ sxPc' = "manager"
    /\ UNCHANGED <<sx_endpoints, sx_idx, sx_trace>>

\* EngineManager.search stops before SearxNG: the engines before it gave
\* max_results * 2 results.
SxNotReached ==
    /\ sxPc = "manager"
    /\ sxPc' = "idle"
    /\ UNCHANGED <<sx_call, sx_good_endpoint, sx_endpoints, sx_idx, sx_trace>>

\* SearxNGEngine.search calls _pick_endpoint: the cached endpoint if there
\* is one, else the list is shuffled and probed in order.
SxPickEndpoint(perm) ==
    /\ sxPc = "manager"
    /\ IF sx_good_endpoint # 0
       THEN /\ sxPc' = "fanout"
            /\ UNCHANGED <<sx_endpoints, sx_idx>>
       ELSE /\ sx_endpoints' = [i \in 1..Len(sx_endpoints) |-> sx_endpoints[perm[i]]]
            /\ sx_idx' = 1
            /\ sxPc' = "probe"
    /\ UNCHANGED <<sx_call, sx_good_endpoint, sx_trace>>

\* One iteration of the for loop of _pick_endpoint: the probe request to
\* the next endpoint.  After the last endpoint failed, _pick_endpoint
\* returns None and search returns no results.
SxProbe(status) ==
    /\ sxPc = "probe"
    /\ LET base == sx_endpoints[sx_idx]
       IN  /\ sx_trace' = Append(sx_trace, ProbeEvent(sx_call, base, status))
           /\ IF status = OK200
              THEN /\ sx_good_endpoint' = base
                   /\ sxPc' = "fanout"
                   /\ UNCHANGED sx_idx
              ELSE /\ sx_idx' = sx_idx + 1
                   /\ sxPc' = IF sx_idx < Len(sx_endpoints) THEN "probe" ELSE "idle"
                   /\ UNCHANGED sx_good_endpoint
    /\ UNCHANGED <<sx_call, sx_endpoints>>

\* The gathered _one requests, all to base + "/search"; search returns and
\* with it, in this model, search_and_download.
SxFanout ==
    /\ sxPc = "fanout"
    /\ sx_trace' = Append(sx_trace, QueryEvent(sx_call, sx_good_endpoint))
    /\ sxPc' = "idle"
    /\ UNCHANGED <<sx_call, sx_good_endpoint, sx_endpoints, sx_idx>>

nonSxVars == <<emVars, rrVars, dlVars, sVars, rngVars, kbVars, histVars, ddgVars, qsVars, wsVars, lgVars>>

InitSearx ==
    /\ sx_call = 0
    /\ sx_good_endpoint = 0
    /\ sx_endpoints = [i \in 1..MaxEndpoints |-> i]
    /\ sx_idx = 0
    /\ sx_trace = <<>>
    /\ sxPc = "idle"
    /\ EMIdle
    /\ RRIdle
    /\ DLIdle
    /\ SIdle
    /\ RngIdle
    /\ KBIdle
    /\ HistIdle
    /\ DDGIdle
    /\ QSIdle
    /\ WSIdle
    /\ LogIdle

NextSearx ==
    \/ SxConstruct /\ UNCHANGED nonSxVars
    \/ SxNotReached /\ UNCHANGED nonSxVars
    \/ (\E perm \in Shuffles(MaxEndpoints) : SxPickEndpoint(perm)) /\ UNCHANGED nonSxVars
    \/ (\E status \in ProbeStatuses : SxProbe(status)) /\ UNCHANGED nonSxVars
    \/ SxFanout /\ UNCHANGED nonSxVars

SpecSearx == InitSearx /\ [][NextSearx]_vars

(***************************************************************************)
(* Claims about SearxNGEngine, checked under SpecSearx.                    *)
(***************************************************************************)
\* C32: once a probe has answered 200 OK, the process sends no further
\* probe, and every later SearxNG query goes to the endpoint that answered.
C32_EndpointCached ==
    \A i, j \in 1..Len(sx_trace) :
        (i < j /\ sx_trace[i].op = "probe" /\ sx_trace[i].status = OK200)
            => /\ sx_trace[j].op # "probe"
               /\ sx_trace[j].base = sx_trace[i].base

(***************************************************************************)
(* QueryService: submit_query, the _process_query task of each query and   *)
(* get_query_status, one step per stretch of _process_query between two    *)
(* awaits.  The tasks run on one event loop, so what lies between two      *)
(* awaits is atomic.  progress_callback is main.py's wrapper of            *)
(* ConnectionManager.send_progress_update; awaiting it returns or raises.  *)
(***************************************************************************)
QsQueries == {"A", "B"}

Absent == "None"

\* What an await of _process_query does: it returns or it raises.
AwaitOutcomes == {"returns", "raises"}

\* submit_query: the query is stored as PENDING and its task created.
SubmitQuery(q) ==
    /\ qPc[q] = "unsubmitted"
    /\ active_queries' = [active_queries EXCEPT ![q] = "PENDING"]
    /\ qPc' = [qPc EXCEPT ![q] = "created"]
    /\ UNCHANGED completed_queries

\* The task starts: the status becomes PROCESSING and the first progress
\* update is awaited.
ProcessStart(q) ==
    /\ qPc[q] = "created"
    /\ active_queries' = [active_queries EXCEPT ![q] = "PROCESSING"]
    /\ qPc' = [qPc EXCEPT ![q] = "update 10"]
    /\ UNCHANGED completed_queries

\* except Exception: the FAILED result is stored, the query removed from
\* active_queries if it is there, and the FAILED progress update awaited.
HandleError(q) ==
    /\ completed_queries' = [completed_queries EXCEPT ![q] = "FAILED"]
    /\ active_queries' = [active_queries EXCEPT ![q] = Absent]
    /\ qPc' = [qPc EXCEPT ![q] = "update failed"]

\* An await in the try block is over: by raising, which leads into the
\* handler, or by returning, which leads to the next await.
AwaitOver(q, at, next, outcome) ==
    /\ qPc[q] = at
    /\ IF outcome = "raises" THEN HandleError(q)
       ELSE /\ qPc' = [qPc EXCEPT ![q] = next]
            /\ UNCHANGED <<active_queries, completed_queries>>

\* The first progress update is over; SearchSession is built and the second
\* update awaited.
InitUpdateOver(q, outcome) == AwaitOver(q, "update 10", "update 30", outcome)

\* The second progress update is over; run_session is awaited.
ExecUpdateOver(q, outcome) == AwaitOver(q, "update 30", "run_session", outcome)

\* run_session is over; the third update is awaited.
SessionOver(q, outcome) == AwaitOver(q, "run_session", "update 80", outcome)

\* What the stretch after the third update does: all of it succeeds, or
\* save_report raises, or history_service.add_query raises.
RecordOutcomes == {"ok", "save_report raises", "add_query raises"}

\* The third update is over.  The report is saved, the COMPLETED result
\* stored, the query removed from active_queries, the result added to the
\* history and the last update awaited.  add_query raises after the result
\* is stored: the handler stores the FAILED result over it.
ReportUpdateOver(q, outcome, rec) ==
    /\ qPc[q] = "update 80"
    /\ IF outcome = "raises" \/ rec # "ok" THEN HandleError(q)
       ELSE /\ completed_queries' = [completed_queries EXCEPT ![q] = "COMPLETED"]
            /\ active_queries' = [active_queries EXCEPT ![q] = Absent]
            /\ qPc' = [qPc EXCEPT ![q] = "update 100"]

\* The last update of the try block is over, after the COMPLETED result was
\* stored; finally runs when it returned.
CompletedUpdateOver(q, outcome) == AwaitOver(q, "update 100", "done", outcome)

\* The update of the handler is over: finally runs, and if the update
\* raised the task ends with that exception.
FailedUpdateOver(q, outcome) ==
    /\ qPc[q] = "update failed"
    /\ qPc' = [qPc EXCEPT ![q] = IF outcome = "raises" THEN "raised" ELSE "done"]
    /\ UNCHANGED <<active_queries, completed_queries>>

\* get_query_status: the stored result if there is one, else the status in
\* active_queries, else None.
get_query_status(q) ==
    IF completed_queries[q] # Absent THEN completed_queries[q]
    ELSE active_queries[q]

nonQsVars == <<emVars, rrVars, dlVars, sVars, rngVars, kbVars, histVars, ddgVars, sxVars, wsVars, lgVars>>

InitQS ==
    /\ active_queries = [q \in QsQueries |-> Absent]
    /\ completed_queries = [q \in QsQueries |-> Absent]
    /\ qPc = [q \in QsQueries |-> "unsubmitted"]
    /\ EMIdle
    /\ RRIdle
    /\ DLIdle
    /\ SIdle
    /\ RngIdle
    /\ KBIdle
    /\ HistIdle
    /\ DDGIdle
    /\ SxIdle
    /\ WSIdle
    /\ LogIdle

NextQS ==
    \/ (\E q \in QsQueries : SubmitQuery(q)) /\ UNCHANGED nonQsVars
    \/ (\E q \in QsQueries : ProcessStart(q)) /\ UNCHANGED nonQsVars
    \/ (\E q \in QsQueries : \E o \in AwaitOutcomes : InitUpdateOver(q, o)) /\ UNCHANGED nonQsVars
    \/ (\E q \in QsQueries : \E o \in AwaitOutcomes : ExecUpdateOver(q, o)) /\ UNCHANGED nonQsVars
    \/ (\E q \in QsQueries : \E o \in AwaitOutcomes : SessionOver(q, o)) /\ UNCHANGED nonQsVars
    \/ (\E q \in QsQueries : \E o \in AwaitOutcomes : \E rec \in RecordOutcomes :
            ReportUpdateOver(q, o, rec)) /\ UNCHANGED nonQsVars
    \/ (\E q \in QsQueries : \E o \in AwaitOutcomes : CompletedUpdateOver(q, o))
            /\ UNCHANGED nonQsVars
    \/ (\E q \in QsQueries : \E o \in AwaitOutcomes : FailedUpdateOver(q, o)) /\ UNCHANGED nonQsVars

SpecQS == InitQS /\ [][NextQS]_vars

(***************************************************************************)
(* Claims about QueryService, checked under SpecQS.                        *)
(***************************************************************************)
\* The moves of a status that the life cycle allows.
StatusMoves ==
    {<<Absent, "PENDING">>, <<"PENDING", "PROCESSING">>,
     <<"PROCESSING", "COMPLETED">>, <<"PROCESSING", "FAILED">>}

\* A step leaves the status of every query as it is or moves it along the
\* life cycle.
StatusStep ==
    \A q \in QsQueries :
       \/ get_query_status(q)' = get_query_status(q)
       \/ <<get_query_status(q), get_query_status(q)'>> \in StatusMoves

\* A query whose result is stored is no longer in active_queries.
StoredLeavesActive ==
    \A q \in QsQueries : completed_queries[q] # Absent => active_queries[q] = Absent

\* C37 (as stated): the status of a query as get_query_status reports it
\* only moves from PENDING to PROCESSING and from there to COMPLETED or to
\* FAILED; a query with a stored result has left active_queries; and a
\* stored COMPLETED or FAILED is never replaced by another status, also when
\* the last progress update fails.
C37_StatusLifecycle == []StoredLeavesActive /\ [][StatusStep]_vars

(***************************************************************************)
(* ConnectionManager (backend/api/websocket.py) with the websocket         *)
(* endpoints of main.py and one caller of send_progress_update.  All run   *)
(* on one event loop: a step is what runs between two awaits.  A dict is a *)
(* function whose DOMAIN is its keys.  The for loop of                     *)
(* send_progress_update iterates over the set object itself: the iterator  *)
(* remembers the size the set had when the loop began and raises           *)
(* RuntimeError at the next element when the size is another.              *)
(***************************************************************************)
\* How many send_progress_update calls are made in SpecWS.
MaxSends == 2

Sockets == {"w1", "w2", "w3"}
WsQueries == {"A", "B"}

\* del d[k]
Without(d, k) == [x \in DOMAIN d \ {k} |-> d[x]]

\* d[k] = v
With(d, k, v) == [x \in DOMAIN d \cup {k} |-> IF x = k THEN v ELSE d[x]]

NoSender ==
    [pc |-> "idle", query_id |-> "", si_used |-> 0, visited |-> {}, connection |-> "",
     disconnected |-> {}, detached |-> FALSE]

\* ConnectionManager.disconnect applied to the two dicts ac and cq.
DisconnectIn(ac, cq, websocket) ==
    IF websocket \in DOMAIN cq
    THEN LET query_id == cq[websocket]
             discarded == IF query_id \in DOMAIN ac
                          THEN With(ac, query_id, ac[query_id] \ {websocket})
                          ELSE ac
         IN  [ac |-> IF query_id \in DOMAIN discarded /\ discarded[query_id] = {}
                     THEN Without(discarded, query_id) ELSE discarded,
              cq |-> Without(cq, websocket)]
    ELSE [ac |-> ac, cq |-> cq]

RECURSIVE DisconnectAll(_, _, _)
\* for connection in disconnected: self.disconnect(connection)
DisconnectAll(ac, cq, disconnected) ==
    IF disconnected = {} THEN [ac |-> ac, cq |-> cq]
    ELSE LET c == CHOOSE x \in disconnected : TRUE
             d == DisconnectIn(ac, cq, c)
         IN  DisconnectAll(d.ac, d.cq, disconnected \ {c})

\* The set object the sender iterates over is no longer the one in the dict
\* once its key was deleted: it then stays empty.
IterSetSize(snd, ac) ==
    IF snd.detached \/ snd.query_id \notin DOMAIN ac THEN 0
    ELSE Cardinality(ac[snd.query_id])

\* The sender's set object is deleted from ac' (it became empty).
Detaches(snd, ac2) == snd.pc = "sending" /\ snd.query_id \notin DOMAIN ac2

\* websocket_endpoint: await manager.connect(websocket, query_id).  When
\* accept fails the endpoint ends with the exception and nothing is stored.
Connect(websocket, query_id, accepted) ==
    /\ ws_state[websocket] = "new"
    /\ IF accepted
       THEN /\ active_connections' =
                  With(active_connections, query_id,
                       (IF query_id \in DOMAIN active_connections
                        THEN active_connections[query_id] ELSE {}) \cup {websocket})
            /\ connection_queries' = With(connection_queries, websocket, query_id)
            /\ ws_state' = [ws_state EXCEPT ![websocket] = "open"]
       ELSE /\ ws_state' = [ws_state EXCEPT ![websocket] = "closed"]
            /\ UNCHANGED <<active_connections, connection_queries>>
    /\ UNCHANGED <<sender, sends>>

\* websocket_endpoint: the client went away or an error came up:
\* manager.disconnect(websocket).
Disconnect(websocket) ==
    /\ ws_state[websocket] = "open"
    /\ LET d == DisconnectIn(active_connections, connection_queries, websocket)
       IN  /\ active_connections' = d.ac
           /\ connection_queries' = d.cq
           /\ sender' = IF Detaches(sender, d.ac) THEN [sender EXCEPT !.detached = TRUE]
                        ELSE sender
    /\ ws_state' = [ws_state EXCEPT ![websocket] = "closed"]
    /\ UNCHANGED sends

\* The head of "for connection in self.active_connections[query_id]" when
\* the sender snd asks for the next element: RuntimeError when the size
\* changed, else one of the elements not yet handed out, else the loop ends
\* and the failed connections are disconnected.
SendAdvance(snd) ==
    IF IterSetSize(snd, active_connections) # snd.si_used
    THEN /\ sender' = [snd EXCEPT !.pc = "raised", !.connection = ""]
         /\ UNCHANGED <<active_connections, connection_queries>>
    ELSE LET rest == active_connections[snd.query_id] \ snd.visited
         IN  IF rest # {}
             THEN /\ \E c \in rest : sender' = [snd EXCEPT !.pc = "sending", !.connection = c]
                  /\ UNCHANGED <<active_connections, connection_queries>>
             ELSE LET d == DisconnectAll(active_connections, connection_queries,
                                         snd.disconnected)
                  IN  /\ active_connections' = d.ac
                      /\ connection_queries' = d.cq
                      /\ sender' = NoSender

\* send_progress_update(query_id, message) up to its first await: it returns
\* at once when nobody listens to the query, else the loop starts.
SendProgressUpdate(query_id) ==
    /\ sender.pc = "idle"
    /\ sends < MaxSends
    /\ sends' = sends + 1
    /\ IF query_id \notin DOMAIN active_connections
       THEN UNCHANGED <<active_connections, connection_queries, sender>>
       ELSE SendAdvance([NoSender EXCEPT !.query_id = query_id,
                            !.si_used = Cardinality(active_connections[query_id])])
    /\ UNCHANGED ws_state

\* await connection.send_text(json_message) is over: it returned, or it
\* raised and the connection is noted as disconnected; the loop goes on.
SendTextOver(raised) ==
    /\ sender.pc = "sending"
    /\ raised => ws_state[sender.connection] = "closed"
    /\ SendAdvance([sender EXCEPT
           !.visited = @ \cup {sender.connection},
           !.disconnected = IF raised THEN @ \cup {sender.connection} ELSE @])
    /\ UNCHANGED <<ws_state, sends>>

nonWsVars == <<emVars, rrVars, dlVars, sVars, rngVars, kbVars, histVars, ddgVars, sxVars, qsVars, lgVars>>

InitWS ==
    /\ active_connections = [q \in {} |-> {}]
    /\ connection_queries = [w \in {} |-> ""]
    /\ ws_state = [w \in Sockets |-> "new"]
    /\ sender = NoSender
    /\ sends = 0
    /\ EMIdle
    /\ RRIdle
    /\ DLIdle
    /\ SIdle
    /\ RngIdle
    /\ KBIdle
    /\ HistIdle
    /\ DDGIdle
    /\ SxIdle
    /\ QSIdle
    /\ LogIdle

NextWS ==
    \/ (\E w \in Sockets : \E q \in WsQueries : \E ok \in BOOLEAN : Connect(w, q, ok))
            /\ UNCHANGED nonWsVars
    \/ (\E w \in Sockets : Disconnect(w)) /\ UNCHANGED nonWsVars
    \/ (\E q \in WsQueries : SendProgressUpdate(q)) /\ UNCHANGED nonWsVars
    \/ (\E raised \in BOOLEAN : SendTextOver(raised)) /\ UNCHANGED nonWsVars

SpecWS == InitWS /\ [][NextWS]_vars

(***************************************************************************)
(* Claims about ConnectionManager, checked under SpecWS.                   *)
(***************************************************************************)
\* The two dicts agree and no query has an empty set.
DictsAgree ==
    /\ \A q \in DOMAIN active_connections :
          /\ active_connections[q] # {}
          /\ \A w \in active_connections[q] :
                w \in DOMAIN connection_queries /\ connection_queries[w] = q
    /\ \A w \in DOMAIN connection_queries :
          /\ connection_queries[w] \in DOMAIN active_connections
          /\ w \in active_connections[connection_queries[w]]

\* C38 (as stated): send_progress_update never raises, also when clients
\* connect or disconnect while it is suspended in a send; and after every
\* interleaving of connect, disconnect and send_progress_update a websocket
\* is in active_connections[q] exactly when connection_queries maps it to q,
\* and active_connections holds no empty set.
C38_SendNeverRaises ==
    /\ sender.pc # "raised"
    /\ DictsAgree

(***************************************************************************)
(* Log streaming (backend/utils/log_streaming.py) as _process_query uses   *)
(* it: setup_log_streaming at the start of a query's task,                 *)
(* cleanup_log_streaming in its finally, and the print calls of the        *)
(* session in between.  sys.stdout is one variable of the process; a       *)
(* stream is "console" or the PrintCapture of a query, named by the query. *)
(* A printed line carries, as ghosts, the query whose processing printed   *)
(* it and a serial number.                                                 *)
(***************************************************************************)
\* How many lines are printed in SpecLog.
MaxPrints == 2

LogQueries == {"A", "B"}

\* Lines that start with [INFO] or [DEBUG], and the others.
LineKinds == {"[INFO]", "plain"}

Line(by, n, kind) == [by |-> by, n |-> n, kind |-> kind]

\* log_message = {'query_id': self.query_id, ..., 'message': friendly_log}
LogMessage(query_id, line) == [query_id |-> query_id, line |-> line]

\* re.match(r'^\[(INFO|DEBUG)\]', line)
Streamed(line) == line.kind = "[INFO]"

RECURSIVE Write(_, _, _, _)
\* out.write(line + "\n") with the captures caps and the callback's log:
\* a PrintCapture first writes to its original_stdout, then buffers a
\* streamed line under its own query_id and schedules the callback with it.
Write(out, line, caps, log) ==
    IF out = "console" THEN [caps |-> caps, log |-> log]
    ELSE LET below == Write(caps[out].original_stdout, line, caps, log)
             log_message == LogMessage(out, line)
         IN  IF Streamed(line)
             THEN [caps |-> [below.caps EXCEPT ![out].log_buffer = Append(@, log_message)],
                   log |-> Append(below.log, log_message)]
             ELSE below

\* setup_log_streaming(query_id, callback, loop): original_stdout =
\* sys.stdout; sys.stdout = PrintCapture(..., original_stdout).
SetupLogStreaming(q) ==
    /\ lgPc[q] = "idle"
    /\ captures' = [captures EXCEPT ![q] = [original_stdout |-> sys_stdout, log_buffer |-> <<>>]]
    /\ sys_stdout' = q
    /\ lgPc' = [lgPc EXCEPT ![q] = "running"]
    /\ UNCHANGED <<callback_log, printed>>

\* print(...) somewhere in the processing of query q: sys.stdout.write.
PrintLine(q, kind) ==
    /\ lgPc[q] = "running"
    /\ printed < MaxPrints
    /\ printed' = printed + 1
    /\ LET w == Write(sys_stdout, Line(q, printed + 1, kind), captures, callback_log)
       IN  /\ captures' = w.caps
           /\ callback_log' = w.log
    /\ UNCHANGED <<sys_stdout, lgPc>>

\* cleanup_log_streaming(handler_tuple): sys.stdout = original_stdout.
CleanupLogStreaming(q) ==
    /\ lgPc[q] = "running"
    /\ sys_stdout' = captures[q].original_stdout
    /\ lgPc' = [lgPc EXCEPT ![q] = "ended"]
    /\ UNCHANGED <<captures, callback_log, printed>>

nonLgVars == <<emVars, rrVars, dlVars, sVars, rngVars, kbVars, histVars, ddgVars, sxVars, qsVars, wsVars>>

InitLog ==
    /\ sys_stdout = "console"
    /\ captures = [q \in LogQueries |-> [original_stdout |-> "", log_buffer |-> <<>>]]
    /\ callback_log = <<>>
    /\ lgPc = [q \in LogQueries |-> "idle"]
    /\ printed = 0
    /\ EMIdle
    /\ RRIdle
    /\ DLIdle
    /\ SIdle
    /\ RngIdle
    /\ KBIdle
    /\ HistIdle
    /\ DDGIdle
    /\ SxIdle
    /\ QSIdle
    /\ WSIdle

NextLog ==
    \/ (\E q \in LogQueries : SetupLogStreaming(q)) /\ UNCHANGED nonLgVars
    \/ (\E q \in LogQueries : \E kind \in LineKinds : PrintLine(q, kind)) /\ UNCHANGED nonLgVars
    \/ (\E q \in LogQueries : CleanupLogStreaming(q)) /\ UNCHANGED nonLgVars

SpecLog == InitLog /\ [][NextLog]_vars

(***************************************************************************)
(* Claims about log streaming, checked under SpecLog.                      *)
(***************************************************************************)
\* C39 (as stated): once every query that set up log streaming has run its
\* cleanup, sys.stdout is the stream that was installed before the first
\* setup, in whatever order concurrent queries start and end.
C39_StdoutRestored ==
    (\A q \in LogQueries : lgPc[q] # "running") => sys_stdout = "console"

\* C40 (as stated): a line printed while query A is processed is streamed
\* with query_id A only and only once: every message handed to the callback
\* and every message in a query's log buffer carries the query that printed
\* its line, and no line is handed to the callback twice.
C40_LogsStayWithQuery ==
    /\ \A i \in 1..Len(callback_log) :
          /\ callback_log[i].query_id = callback_log[i].line.by
          /\ \A j \in 1..Len(callback_log) :
                callback_log[i].line = callback_log[j].line => i = j
    /\ \A q \in LogQueries :
          \A i \in 1..Len(captures[q].log_buffer) : captures[q].log_buffer[i].line.by = q

(***************************************************************************)
(* Claims about the session, checked under Spec.                           *)
(***************************************************************************)
\* C1 (as stated): whatever engines, robots files, downloads, parsers and
\* page embeddings do, run_session gets to the final answer generation; it
\* fails only when that last call fails.
C1_OnlyFinalAnswerCanFail == sPc = "failed" => sError = "generate_final_answer"

\* No URL occurs twice in a list of web results.
UniqueUrls(ws) == \A i, j \in 1..Len(ws) : i # j => ws[i].url # ws[j].url

\* C6 (as stated): the web results returned to the user, SearchSession.
\* web_results after run_session and the list QueryService extracts from the
\* search tree, hold each URL at most once, across all sub-queries and depths.
C6_ReturnedUrlsUnique ==
    /\ sPc = "done" => UniqueUrls(web_results)
    /\ qsStatus = "COMPLETED" => UniqueUrls(qsWebResults)

\* C8: during download_many at most `concurrency` fetch_one calls are in
\* progress at any moment, for every number of URLs and every interleaving of
\* their network waits (the semaphore's free permits account for the rest);
\* and in a session, whose sub-queries are expanded one after the other, the
\* downloads in flight never exceed web_concurrency.
C8_BoundedConcurrency ==
    /\ dlPc = "gather" =>
         /\ Cardinality(InFlight) <= concurrency
         /\ sem = concurrency - Cardinality(InFlight)
    /\ sPc # "idle" =>
         /\ Cardinality(InFlight) <= config.web_concurrency
         /\ dlPc # "idle" => (sPc = "recursing" /\ Top.pc = "download")

\* C8 witness: a session's download with more URLs than permits, every
\* permit taken, a task still waiting for the semaphore while another one is
\* in its retry sleep.
C8_Witness ==
    /\ sPc = "recursing"
    /\ dlPc = "gather"
    /\ Len(tasks) > concurrency
    /\ Cardinality(InFlight) = concurrency
    /\ \E i \in 1..Len(tasks) : tasks[i].pc = "queued"
    /\ \E i \in 1..Len(tasks) : tasks[i].pc = "sleep"


\* run_session has stored the tree that perform_recursive_web_searches
\* returned.
TreeReturned == sPc \in {"summaries", "final", "done"}

\* C14: in the returned tree every root node has depth 1, every child has
\* its parent's depth + 1, every depth is between 1 and max_depth, and a node
\* at depth max_depth has no children and no query enhancement was requested
\* for it.
C14_TreeDepths ==
    TreeReturned =>
      /\ \A r \in Range(toc_tree) : toc[r].depth = 1
      /\ \A n \in 1..Len(toc) :
            /\ \A c \in Range(toc[n].children) : toc[c].depth = toc[n].depth + 1
            /\ 1 <= toc[n].depth
            /\ toc[n].depth <= config.max_depth
            /\ toc[n].depth = config.max_depth =>
                  toc[n].children = <<>> /\ ~toc[n].enhance_requested

\* C14 witness: a returned tree with a root whose enhancement was requested
\* and led to a child at depth 2 = max_depth.
C14_Witness ==
    /\ TreeReturned
    /\ \E r \in Range(toc_tree) : \E c \in Range(toc[r].children) :
         /\ toc[r].enhance_requested
         /\ toc[c].depth = 2
         /\ config.max_depth = 2
         /\ ~toc[c].enhance_requested

\* How often node n occurs in the list ids.
Occurrences(ids, n) == Cardinality({k \in 1..Len(ids) : ids[k] = n})

\* In how many places of the tree node n hangs: the root list and the
\* children lists of all nodes.
Places(n) ==
    Occurrences(toc_tree, n)
    + SumTo([p \in 1..Len(toc) |-> Occurrences(toc[p].children, n)], Len(toc))

\* C15: in the returned tree every child's parent_query is its parent's
\* query_text, and every node hangs in exactly one place: in the root list or
\* in the children of exactly one parent.
C15_ParentLinks ==
    TreeReturned =>
      \A n \in 1..Len(toc) :
         /\ \A c \in Range(toc[n].children) : toc[c].parent_query = toc[n].query_text
         /\ Places(n) = 1

\* C15 witness: a returned tree with two nodes, a root and its child, whose
\* parent_query is the root's text and not the session's query.
C15_Witness ==
    /\ TreeReturned
    /\ Len(toc) = 2
    /\ toc_tree = <<1>>
    /\ toc[1].children = <<2>>
    /\ toc[1].parent_query = "query"
    /\ toc[2].parent_query = toc[1].query_text

\* The sub-queries run_session hands to the recursion: the sampled ones when
\* the Monte-Carlo sampler ran, else all of them.
RootSubqueries ==
    IF config.monte_carlo_search /\ Scored(InitialSubqueries) # <<>>
    THEN selected_queries ELSE InitialSubqueries

\* The relevance of the sub-query is at or above the floor.
AtOrAboveFloor(sq) == relevance[sq] >= config.min_relevance

\* C16: no node of the returned tree has a relevance_score below
\* min_relevance, no web result and no corpus entry of the output comes from
\* a sub-query below it, and the sub-queries at or above it are retained: the
\* roots are, in order, the sub-queries of the session that pass the floor.
C16_RelevanceGate ==
    TreeReturned =>
      /\ \A n \in 1..Len(toc) :
            /\ toc[n].relevance_score >= config.min_relevance
            /\ \A k \in 1..Len(toc[n].web_results) :
                  AtOrAboveFloor(toc[n].web_results[k].subquery)
            /\ \A k \in 1..Len(toc[n].corpus_entries) :
                  AtOrAboveFloor(toc[n].corpus_entries[k].subquery)
      /\ \A k \in 1..Len(web_results) : AtOrAboveFloor(web_results[k].subquery)
      /\ [r \in 1..Len(toc_tree) |-> toc[toc_tree[r]].query_text]
            = SelectSeq(RootSubqueries, AtOrAboveFloor)

\* C16 witness: of two sub-queries the first is below the floor and the
\* second at it; the returned tree has the second as its only node, with a
\* web result.
C16_Witness ==
    /\ TreeReturned
    /\ ~config.monte_carlo_search
    /\ enhanced_query = <<"q1", "q2">>
    /\ relevance["q1"] < config.min_relevance
    /\ relevance["q2"] = config.min_relevance
    /\ Len(toc) = 1
    /\ toc[1].query_text = "q2"
    /\ web_results # <<>>

\* No candidate of the sampler has a positive weight.
NoPositiveWeight ==
    \A i \in 1..Len(Weights(InitialSubqueries)) : Weights(InitialSubqueries)[i] <= 0

\* C17 (as stated): when no candidate sub-query has a positive weight,
\* perform_monte_carlo_subqueries does not raise and returns the full list of
\* candidates, which the recursion then receives.
C17_MonteCarloFallback ==
    (config.monte_carlo_search /\ NoPositiveWeight /\ sPc \notin {"idle", "start"}) =>
       /\ sError # "random.choices"
       /\ frames # <<>> => frames[1].subqueries = InitialSubqueries

\* C18 (as stated): the node of a sub-query that the sampler selected has
\* monte_carlo_selected = true and, as monte_carlo_weight, the weight this
\* very sub-query had in the sampling, which is its relevance score; the
\* other nodes have monte_carlo_selected = false.
C18_MonteCarloTags ==
    \A n \in 1..Len(toc) :
       IF toc[n].query_text \in Range(selected_queries)
       THEN /\ toc[n].monte_carlo_selected
            /\ toc[n].monte_carlo_weight = relevance[toc[n].query_text]
       ELSE ~toc[n].monte_carlo_selected

\* C20 (as stated): when the LLM call fails while enhancing a sub-query, no
\* child sub-queries are derived from the failed call, so the node makes no
\* nested call and gets no children; and when the LLM call fails while
\* summarizing a branch, the node's summary is empty.
C20_LLMFailureKeepsLastGood ==
    /\ \A n \in 1..Len(toc) :
          /\ toc[n].enhance_failed => toc[n].children = <<>>
          /\ toc[n].summary_failed => toc[n].summary = ""
    /\ \A k \in 1..(Len(frames) - 1) : ~toc[frames[k].node].enhance_failed

\* C21 (as stated): when the final LLM call fails, the result QueryService
\* records for the session has status FAILED; it is never recorded as
\* COMPLETED.
C21_FinalFailureMarksFailed ==
    (final_answer = LLMError /\ qsStatus # "PROCESSING") => qsStatus = "FAILED"

\* C22: with an empty enhanced query there is no sub-query, the sampler
\* returns the empty list without raising, the recursion creates no node and
\* starts no search and no download, and run_session does not fail on its
\* way to the final answer.
C22_EmptyQuery ==
    enhanced_query = <<>> =>
      /\ InitialSubqueries = <<>>
      /\ sPc # "failed"
      /\ sError = ""
      /\ selected_queries = <<>>
      /\ \A k \in 1..Len(frames) : frames[k].subqueries = <<>>
      /\ toc = <<>>
      /\ toc_tree = <<>>
      /\ emPc = "idle"
      /\ dlPc = "idle"
      /\ sPc = "done" => final_answer \in LLMTexts

\* C22 witness: a session with the sampler switched on and an empty enhanced
\* query has returned its final answer, and the result is recorded.
C22_Witness ==
    /\ enhanced_query = <<>>
    /\ config.monte_carlo_search
    /\ sPc = "done"
    /\ final_answer = "text"
    /\ qsStatus = "COMPLETED"

\* The steps a call of perform_recursive_web_searches may take next.
StepAfter(pc) ==
    CASE pc = "loop" -> {"loop", "engines"}
      [] pc = "engines" -> {"engines", "download"}
      [] pc = "download" -> {"download", "summarize"}
      [] pc = "summarize" -> {"summarize", "enhance", "loop"}
      [] pc = "enhance" -> {"enhance", "children", "loop"}
      [] pc = "children" -> {"children", "loop"}

\* Where the node of each active call stands, and what a completed node
\* has behind it.
StepOrder ==
    /\ \A k \in 1..Len(frames) :
          LET f == frames[k]
              IsTop == k = Len(frames)
          IN  /\ f.pc = "loop" <=> f.node = 0
              /\ ~IsTop <=> f.pc = "children"
              /\ ~IsTop => frames[k + 1].depth = f.depth + 1
              /\ f.pc = "engines" <=> (IsTop /\ emPc # "idle")
              /\ f.pc = "download" <=> (IsTop /\ dlPc # "idle")
              /\ f.node # 0 =>
                    LET node == toc[f.node]
                    IN  /\ ~node.completed
                        /\ f.pc \in {"engines", "download"} =>
                              f.branch_web_results = <<>> /\ f.branch_corpus_entries = <<>>
                        /\ f.pc \in {"engines", "download", "summarize"} =>
                              /\ node.summary = ""
                              /\ node.web_results = <<>>
                              /\ ~node.enhance_requested
                        /\ f.pc \in {"enhance", "children"} =>
                              node.summary \in LLMTexts /\ node.enhance_requested
                        /\ node.children = <<>>
    /\ \A n \in 1..Len(toc) :
          /\ toc[n].completed =>
                /\ toc[n].summary \in LLMTexts
                /\ \A c \in Range(toc[n].children) : toc[c].completed
          /\ (sPc = "recursing" /\ ~toc[n].completed) =>
                \E k \in 1..Len(frames) : frames[k].node = n
          /\ toc[n].children # <<>> => toc[n].completed

\* Each call goes through its steps in their order, and leaves the
\* download step only when download_many has returned.
StepsInOrder ==
    \A k \in 1..Len(frames) :
       k \in 1..Len(frames') =>
          /\ frames'[k].pc \in StepAfter(frames[k].pc)
          /\ (frames[k].pc = "engines" /\ frames'[k].pc = "download") => emPc = "done"
          /\ (frames[k].pc = "download" /\ frames'[k].pc = "summarize") =>
                dlPc = "done" /\ \A i \in 1..Len(tasks) : tasks[i].pc = "done"

\* C26: for each sub-query the search and the downloads are over before a
\* page is extracted and embedded, the summary is requested after the
\* pages are embedded, the recursion into the children starts after the
\* summary is recorded, and the node is marked completed only after all
\* its descendants are.
C26_SequentialSteps == []StepOrder /\ [][StepsInOrder]_vars

\* C26 witness: a node with an embedded page, a recorded summary and a
\* child has been marked completed, after its child.
C26_Witness ==
    \E n \in 1..Len(toc) :
       /\ toc[n].completed
       /\ toc[n].summary = "text"
       /\ toc[n].web_results # <<>>
       /\ toc[n].children # <<>>
       /\ \A c \in Range(toc[n].children) : toc[c].completed /\ toc[c].depth = toc[n].depth + 1

\* os.makedirs(subquery_dir, exist_ok=True): the directories web_<sub-query>
\* made so far.  The directory is made in the step that keeps the node.
ResultDirs == {toc[n].query_text : n \in 1..Len(toc)}

\* The sub-query passes the loop's two filters.
Retained(sq) == Valid(sq) /\ AtOrAboveFloor(sq)

\* The loop of the innermost call stands before a sub-query that fails the
\* relevance gate.
BeforePruned ==
    /\ sPc = "recursing"
    /\ frames # <<>>
    /\ Top.pc = "loop"
    /\ Top.idx <= Len(Top.subqueries)
    /\ Valid(Top.subqueries[Top.idx])
    /\ relevance[Top.subqueries[Top.idx]] < config.min_relevance

\* The iteration for a pruned sub-query moves the loop on and does nothing
\* else: no engine is called, no download started, no node, summary or
\* enhancement added, no directory made, no result changed.
PrunedStep ==
    BeforePruned =>
        /\ frames' = SetTop([Top EXCEPT !.idx = @ + 1])
        /\ ResultDirs' = ResultDirs
        /\ UNCHANGED <<emVars, rrVars, dlVars, toc, web_results, toc_tree, sPc, sError,
                       selected_queries, final_answer>>

\* What every active call has built is what its list without the pruned
\* sub-queries gives: the nodes made so far are, in order, the retained
\* sub-queries before the loop's position, and nothing in the aggregates
\* comes from a pruned one.
AsIfNotListed ==
    /\ \A n \in 1..Len(toc) : AtOrAboveFloor(toc[n].query_text)
    /\ \A k \in 1..Len(frames) :
          LET f == frames[k]
              done == SelectSeq(SubSeq(f.subqueries, 1, f.idx - 1), Retained)
          IN  /\ [i \in 1..Len(f.toc_nodes) |-> toc[f.toc_nodes[i]].query_text] = done
              /\ f.node # 0 => Retained(f.subqueries[f.idx])
              /\ \A i \in 1..Len(f.aggregated_web_results) :
                    AtOrAboveFloor(f.aggregated_web_results[i].subquery)
              /\ \A i \in 1..Len(f.aggregated_corpus_entries) :
                    AtOrAboveFloor(f.aggregated_corpus_entries[i].subquery)

\* C33: for a sub-query that fails the relevance gate no engine search, no
\* download, no summarization and no query enhancement is performed and no
\* result directory is made; the other sub-queries of the list and the
\* parent node are processed as if the pruned one had not been in the list.
C33_PrunedSubquery == []AsIfNotListed /\ [][PrunedStep]_vars

\* C33 witness: the enhancement of a node led to a sub-query below the
\* floor; the nested call has just passed it over, with no node made for it
\* and no engine running.
C33_Witness ==
    /\ Len(frames) = 2
    /\ frames[2].subqueries = <<"c1">>
    /\ relevance["c1"] < config.min_relevance
    /\ frames[2].idx = 2
    /\ frames[2].toc_nodes = <<>>
    /\ "c1" \notin ResultDirs
    /\ emPc = "idle"

\* download_many has returned into search_and_download, which is about to
\* write the sidecars and return.
SidecarsDue ==
    /\ sPc = "recursing"
    /\ frames # <<>>
    /\ Top.pc = "download"
    /\ dlPc = "done"

\* The sidecar carries the engine, title and date hint of the ranked result
\* r.
DescribedBy(meta, r) ==
    /\ meta.source_engine = r.source
    /\ meta.title = r.title
    /\ meta.published_hint = r.published

\* C34 (as stated): every page search_and_download returns has a sidecar
\* whose source_engine, title and published_hint are those of the ranked
\* result with the page's URL, whichever ranked URLs failed to download or
\* were skipped.
C34_SidecarDescribesPage ==
    SidecarsDue =>
        LET parsed == Parsed(Top.ranked, dlPages)
        IN  \A i \in 1..Len(parsed) :
              \A k \in 1..Len(Top.ranked) :
                 Top.ranked[k].href = parsed[i].url => DescribedBy(parsed[i], Top.ranked[k])

\* grouped[domain].append({...}); the field subquery tells in whose
\* directory file_path lies.
GroupedItem(r, e) ==
    [url |-> r.url, file_path |-> e.file_path, title |-> r.title,
     source_engine |-> r.source_engine, subquery |-> e.subquery]

RECURSIVE GroupFrom(_, _, _, _)
\* for r, e in zip(aggregated_web_results, aggregated_corpus_entries), from
\* position i on: a result with a URL is appended to the list of its
\* urlparse(url).netloc.
GroupFrom(ws, es, i, grouped) ==
    IF i > Min(Len(ws), Len(es)) THEN grouped
    ELSE IF ws[i].url = NoHref THEN GroupFrom(ws, es, i + 1, grouped)
    ELSE LET domain == ws[i].url.netloc
             item == GroupedItem(ws[i], es[i])
         IN  GroupFrom(ws, es, i + 1,
                 IF domain \in DOMAIN grouped
                 THEN [grouped EXCEPT ![domain] = Append(@, item)]
                 ELSE grouped @@ (domain :> <<item>>))

\* grouped as perform_recursive_web_searches returns it.
Grouped(ws, es) == GroupFrom(ws, es, 1, [d \in {} |-> <<>>])

\* The call described by frame f is about to return.
ReturnDue(f) == f.pc = "loop" /\ f.idx > Len(f.subqueries)

\* The two aggregates go together: same length, and the i-th entry is that
\* of the i-th result's page (same URL, fetched for the same sub-query).
Aligned(ws, es) ==
    /\ Len(ws) = Len(es)
    /\ \A i \in 1..Len(ws) : ws[i].url = es[i].url /\ ws[i].subquery = es[i].subquery

\* Every web result with a URL is in the mapping once for each time it is in
\* the list, under its host and nowhere else, with a file of its own page.
GroupedOnce(ws, grouped) ==
    /\ \A i \in 1..Len(ws) :
          ws[i].url # NoHref =>
             /\ ws[i].url.netloc \in DOMAIN grouped
             /\ \A d \in DOMAIN grouped :
                   LET mine == {j \in 1..Len(grouped[d]) :
                                   /\ grouped[d][j].url = ws[i].url
                                   /\ grouped[d][j].subquery = ws[i].subquery
                                   /\ grouped[d][j].title = ws[i].title
                                   /\ grouped[d][j].source_engine = ws[i].source_engine}
                       same == {j \in 1..Len(ws) : ws[j] = ws[i]}
                   IN  Cardinality(mine) =
                          IF d = ws[i].url.netloc THEN Cardinality(same) ELSE 0
    /\ \A d \in DOMAIN grouped :
          \A j \in 1..Len(grouped[d]) :
             /\ grouped[d][j].url.netloc = d
             /\ grouped[d][j].file_path.hash = url_hash(grouped[d][j].url)

\* C35: whenever perform_recursive_web_searches returns, at any depth, its
\* two aggregated lists have the same length and go together position by
\* position, and the grouped mapping holds every web result with a URL
\* exactly once, under its URL's host, with the file_path of its own page.
C35_AggregatesAligned ==
    \A k \in 1..Len(frames) :
       LET f == frames[k]
       IN  /\ Aligned(f.aggregated_web_results, f.aggregated_corpus_entries)
           /\ ReturnDue(f) =>
                 GroupedOnce(f.aggregated_web_results,
                             Grouped(f.aggregated_web_results, f.aggregated_corpus_entries))

\* C35 witness: the outermost call returns two results of two hosts.
C35_Witness ==
    /\ Len(frames) = 1
    /\ ReturnDue(frames[1])
    /\ Len(frames[1].aggregated_web_results) = 2
    /\ frames[1].aggregated_web_results[1].url.netloc
          # frames[1].aggregated_web_results[2].url.netloc
    /\ DOMAIN Grouped(frames[1].aggregated_web_results, frames[1].aggregated_corpus_entries)
          = {"a.com", "b.edu"}

\* The node holds the pages embedded for its own sub-query and no others.
OwnPagesOnly(node) ==
    /\ \A k \in 1..Len(node.web_results) : node.web_results[k].subquery = node.query_text
    /\ \A k \in 1..Len(node.corpus_entries) : node.corpus_entries[k].subquery = node.query_text

\* C36 (as stated): every node of the returned tree holds exactly the pages
\* embedded for its own sub-query, none of its descendants'; its metrics
\* web_results_count and corpus_entries_count are the lengths of its two
\* lists; and the walk over the tree, node by node, meets each page of the
\* session's web results once.
C36_NodeOwnPages ==
    TreeReturned =>
      /\ \A n \in 1..Len(toc) :
            /\ OwnPagesOnly(toc[n])
            /\ toc[n].web_results_count = Len(toc[n].web_results)
            /\ toc[n].corpus_entries_count = Len(toc[n].corpus_entries)
      /\ Len(ExtractWebResults(toc, toc_tree)) = Len(web_results)

=============================================================================
